---- MODULE Spec2Model ----
(***************************************************************************)
(* Model of the download worker of the YouTube downloader:                 *)
(*   core/download_thread.py  PlaylistErrorTracker and DownloadThread      *)
(*   core/format_handler.py   get_format_options                           *)
(*   gui/main_window.py       download_finished (the slot that receives    *)
(*                            the terminal download_complete signal)       *)
(*                                                                         *)
(* Python strings that the code parses (log lines, identifiers, titles)    *)
(* are tuples of one-character strings, so that the regular expressions    *)
(* and substring tests are computed as the code computes them.  Strings    *)
(* that the code only passes along (texts, selectors) are TLA+ strings.    *)
(***************************************************************************)
EXTENDS Integers, Sequences, FiniteSets, TLC

\* ---------------------------------------------------------------- bounds
\* log lines (debug/info/warning/error calls) the backend makes per session
MaxLogLines == 4
\* progress callbacks the backend makes per session
MaxTicks == 2

\* ------------------------------------------------------ Python primitives
\* Python None, where a string is expected: no tuple of characters equals it
None == <<"None">>

Lower == {"a","b","c","d","e","f","g","h","i","j","k","l","m","n","o","p","q","r","s","t","u","v","w","x","y","z"}
Upper == {"A","B","C","D","E","F","G","H","I","J","K","L","M","N","O","P","Q","R","S","T","U","V","W","X","Y","Z"}
Digits == {"0","1","2","3","4","5","6","7","8","9"}

\* the character class [a-zA-Z0-9_-]
IdChars == Lower \cup Upper \cup Digits \cup {"_", "-"}

\* the character class \w (letters, digits, underscore; Python 3 str
\* patterns are Unicode-aware, so the accented letters of the labels count)
WordChars == Lower \cup Upper \cup Digits \cup {"_", "á", "ä", "é"}

\* the length of a YouTube video id in the pattern [a-zA-Z0-9_-]{11}
IdLen == 11

\* s[i:] (1-based i)
Tail_from(s, i) == SubSeq(s, i, Len(s))

\* sub occurs in s at position i
OccursAt(sub, s, i) ==
    /\ i >= 1
    /\ i + Len(sub) - 1 <= Len(s)
    /\ SubSeq(s, i, i + Len(sub) - 1) = sub

\* Python: sub in s
Contains(sub, s) == \E i \in 1..Len(s) : OccursAt(sub, s, i)

\* Python: s.find(sub), 1-based, 0 when absent
Find(sub, s) ==
    IF Contains(sub, s)
    THEN CHOOSE i \in 1..Len(s) :
            /\ OccursAt(sub, s, i)
            /\ \A j \in 1..(i - 1) : ~OccursAt(sub, s, j)
    ELSE 0

\* Python: s.split(sep)[1], defined when sep occurs in s: the text between
\* the first and the second occurrence of sep (or the end of s)
SplitSecond(sep, s) ==
    LET rest == Tail_from(s, Find(sep, s) + Len(sep))
        nxt  == Find(sep, rest)
    IN  IF nxt = 0 THEN rest ELSE SubSeq(rest, 1, nxt - 1)

\* os.path.basename(p): what follows the last "/"
basename(p) ==
    IF \E i \in 1..Len(p) : p[i] = "/"
    THEN LET last == CHOOSE i \in 1..Len(p) :
                        /\ p[i] = "/"
                        /\ \A j \in (i + 1)..Len(p) : p[j] # "/"
         IN  Tail_from(p, last + 1)
    ELSE p

\* every character of s[a..b] is in class
AllIn(s, a, b, class) == \A k \in a..b : s[k] \in class

\* the pattern -\w+\.\w+$ matches s from position i to the end of s
SuffixMatchAt(s, i) ==
    /\ s[i] = "-"
    /\ \E d \in (i + 2)..(Len(s) - 1) :
          /\ s[d] = "."
          /\ AllIn(s, i + 1, d - 1, WordChars)
          /\ AllIn(s, d + 1, Len(s), WordChars)

\* re.sub(r'-\w+\.\w+$', '', s): the leftmost match is removed
StripQualitySuffix(s) ==
    IF \E i \in 1..Len(s) : SuffixMatchAt(s, i)
    THEN LET first == CHOOSE i \in 1..Len(s) :
                         /\ SuffixMatchAt(s, i)
                         /\ \A j \in 1..(i - 1) : ~SuffixMatchAt(s, j)
         IN  SubSeq(s, 1, first - 1)
    ELSE s

\* re.search(r'[a-zA-Z0-9_-]{11}', msg) matches at position i
IdMatchAt(msg, i) ==
    /\ i + IdLen - 1 <= Len(msg)
    /\ AllIn(msg, i, i + IdLen - 1, IdChars)

\* ------------------------------------------------------- literal strings
DestinationTag == <<"[","d","o","w","n","l","o","a","d","]"," ","D","e","s","t","i","n","a","t","i","o","n",":">>
DestinationSep == <<"D","e","s","t","i","n","a","t","i","o","n",":"," ">>
AlreadyDownloaded == <<"h","a","s"," ","a","l","r","e","a","d","y"," ","b","e","e","n"," ","d","o","w","n","l","o","a","d","e","d">>
Skipping == <<"S","k","i","p","p","i","n","g">>
SabrStreaming == <<"S","A","B","R"," ","s","t","r","e","a","m","i","n","g">>
MissingUrl == <<"m","i","s","s","i","n","g"," ","a"," ","u","r","l">>
VideoUnavailable == <<"V","i","d","e","o"," ","u","n","a","v","a","i","l","a","b","l","e">>
PrivateVideo == <<"P","r","i","v","a","t","e"," ","v","i","d","e","o">>
DoesNotExist == <<"d","o","e","s"," ","n","o","t"," ","e","x","i","s","t">>
WatchUrlPrefix == <<"h","t","t","p","s",":","/","/","w","w","w",".","y","o","u","t","u","b","e",".","c","o","m","/","w","a","t","c","h","?","v","=">>
UnknownTitle == <<"U","n","k","n","o","w","n"," ","T","i","t","l","e">>
UnknownVideo == <<"U","n","k","n","o","w","n"," ","V","i","d","e","o">>
UnavailablePrivateVideo == <<"U","n","a","v","a","i","l","a","b","l","e","/","P","r","i","v","a","t","e"," ","V","i","d","e","o">>
VideoDoesNotExist == <<"V","i","d","e","o"," ","D","o","e","s"," ","N","o","t"," ","E","x","i","s","t">>
UnknownId == <<"u","n","k","n","o","w","n">>
VideoSp == <<"V","i","d","e","o"," ">>
PreviouslyDownloadedVideo == <<"P","r","e","v","i","o","u","s","l","y"," ","D","o","w","n","l","o","a","d","e","d"," ","V","i","d","e","o">>
SkippedVideo == <<"S","k","i","p","p","e","d"," ","V","i","d","e","o">>

\* --------------------------------------------- lines the backend reports
\* item identifiers of the collection
IdA == <<"A","A","A","A","A","A","A","A","A","A","A">>
IdB == <<"B","B","B","B","B","B","B","B","B","B","B">>
IdC == <<"C","C","C","C","C","C","C","C","C","C","C">>

\* "[download] Destination: /out/AAAAAAAAAAA-Best.mp4"
DestA == <<"[","d","o","w","n","l","o","a","d","]"," ","D","e","s","t","i","n","a","t","i","o","n",":"," ","/","o","u","t","/","A","A","A","A","A","A","A","A","A","A","A","-","B","e","s","t",".","m","p","4">>
\* "[download] Destination: /out/BBBBBBBBBBB-Best.mp4"
DestB == <<"[","d","o","w","n","l","o","a","d","]"," ","D","e","s","t","i","n","a","t","i","o","n",":"," ","/","o","u","t","/","B","B","B","B","B","B","B","B","B","B","B","-","B","e","s","t",".","m","p","4">>
\* "[download] CCCCCCCCCCC has already been downloaded"
SkipC == <<"[","d","o","w","n","l","o","a","d","]"," ","C","C","C","C","C","C","C","C","C","C","C"," ","h","a","s"," ","a","l","r","e","a","d","y"," ","b","e","e","n"," ","d","o","w","n","l","o","a","d","e","d">>
\* "ERROR: [youtube] CCCCCCCCCCC: Private video"
ErrC == <<"E","R","R","O","R",":"," ","[","y","o","u","t","u","b","e","]"," ","C","C","C","C","C","C","C","C","C","C","C",":"," ","P","r","i","v","a","t","e"," ","v","i","d","e","o">>
\* "ERROR: unable to connect" (no run of 11 identifier characters)
ErrNoId == <<"E","R","R","O","R",":"," ","u","n","a","b","l","e"," ","t","o"," ","c","o","n","n","e","c","t">>
\* "SABR streaming only"
WarnSabr == <<"S","A","B","R"," ","s","t","r","e","a","m","i","n","g"," ","o","n","l","y">>
\* "[debug] yt-dlp"
DebugLine == <<"[","d","e","b","u","g","]"," ","y","t","-","d","l","p">>

DestLines == {DestA, DestB}
SkipLines == {SkipC}
ErrorLines == {ErrC, ErrNoId}
WarningLines == {WarnSabr}
DebugLines == {DebugLine}

\* ------------------------------------------------- PlaylistErrorTracker
\* _extract_video_id_from_msg: the first run of 11 identifier characters
extract_video_id_from_msg(msg) ==
    IF \E i \in 1..Len(msg) : IdMatchAt(msg, i)
    THEN LET first == CHOOSE i \in 1..Len(msg) :
                         /\ IdMatchAt(msg, i)
                         /\ \A j \in 1..(i - 1) : ~IdMatchAt(msg, j)
         IN  SubSeq(msg, first, first + IdLen - 1)
    ELSE None

\* _extract_title_from_msg
extract_title_from_msg(msg) ==
    IF Contains(DestinationTag, msg)
    THEN StripQualitySuffix(basename(SplitSecond(DestinationSep, msg)))
    ELSE UnknownTitle

\* _extract_skipped_title
extract_skipped_title(msg) ==
    IF Contains(AlreadyDownloaded, msg)
    THEN LET video_id == extract_video_id_from_msg(msg)
         IN  IF video_id # None THEN VideoSp \o video_id
                                ELSE PreviouslyDownloadedVideo
    ELSE SkippedVideo

\* _extract_error_info with the test of line 118 inverted
extract_error_info_inverted(msg) ==
    LET vid   == extract_video_id_from_msg(msg)
        id    == IF vid # None THEN vid ELSE UnknownId
        url   == IF vid # None THEN WatchUrlPrefix \o vid ELSE None
        title == IF Contains(VideoUnavailable, msg) \/ Contains(PrivateVideo, msg)
                 THEN UnavailablePrivateVideo
                 ELSE IF Contains(DoesNotExist, msg)
                      THEN VideoDoesNotExist
                      ELSE UnknownVideo
    IN  IF id = UnknownId
        THEN <<[id |-> id, title |-> title, error |-> msg, url |-> url]>>
        ELSE <<>>

\* _extract_error_info: <<the record>>, or <<>> for None when no identifier
\* is found (the pattern of line 107 is the pattern of line 74)
extract_error_info(msg) ==
    LET vid   == extract_video_id_from_msg(msg)
        id    == IF vid # None THEN vid ELSE UnknownId
        url   == IF vid # None THEN WatchUrlPrefix \o vid ELSE None
        title == IF Contains(VideoUnavailable, msg) \/ Contains(PrivateVideo, msg)
                 THEN UnavailablePrivateVideo
                 ELSE IF Contains(DoesNotExist, msg)
                      THEN VideoDoesNotExist
                      ELSE UnknownVideo
    IN  IF id # UnknownId
        THEN <<[id |-> id, title |-> title, error |-> msg, url |-> url]>>
        ELSE <<>>

\* any(v['id'] == video_id for v in videos)
HasId(videos, video_id) == \E k \in 1..Len(videos) : videos[k].id = video_id


\* ---------------------------------------------------------------- texts
\* localization/translations.py, the English table: the keys the worker
\* and the finished-slot read.  The other keys they read (download_aborted,
\* download_with_skips, download_skipped, download_mixed_results,
\* download_all_failed) are in no table, so texts.get returns its default.
texts == [download_button      |-> "Download",
          downloading_button   |-> "Downloading...",
          downloading          |-> "Downloading... Please wait.",
          download_complete    |-> "Download complete!",
          download_failed      |-> "Download failed.",
          success              |-> "Success",
          error                |-> "Error",
          url_error            |-> "Please enter a video URL.",
          quality_best         |-> "Best",
          quality_lowest       |-> "Lowest",
          audio_quality_high   |-> "High Quality",
          audio_quality_medium |-> "Medium Quality",
          audio_quality_low    |-> "Low Quality"]

\* texts.get(key, default)
texts_get(key, default) == IF key \in DOMAIN texts THEN texts[key] ELSE default

\* a message: a format string and the values substituted into it
Fmt(text, args) == [text |-> text, args |-> args]

download_aborted_msg == Fmt(texts_get("download_aborted", "Download was aborted"), <<>>)
download_complete_msg == Fmt(texts["download_complete"], <<>>)
download_failed_msg == Fmt(texts["download_failed"], <<>>)
download_skipped_msg == Fmt(texts_get("download_skipped", "File already exists, skipped download"), <<>>)
download_all_failed_msg == Fmt(texts_get("download_all_failed", "All videos failed to download"), <<>>)
download_with_skips_msg(successful_count, skipped_count) ==
    Fmt(texts_get("download_with_skips", "Download completed. {} downloaded, {} already existed"),
        <<successful_count, skipped_count>>)
download_mixed_results_msg(successful_count, skipped_count, failed_count) ==
    Fmt(texts_get("download_mixed_results", "Download completed: {} downloaded, {} skipped, {} failed"),
        <<successful_count, skipped_count, failed_count>>)
download_exception_msg(e) == Fmt("Failed to download the video: {}", <<e>>)

\* --------------------------------------------------------------- signals
status_update(message, color) == [sig |-> "status_update", args |-> <<message, color>>]
progress_update(progress) == [sig |-> "progress_update", args |-> <<progress>>]
download_complete(success, message, failed) ==
    [sig |-> "download_complete", args |-> <<success, message, failed>>]

\* ------------------------------------------------------ format_handler.py
\* A format string is written as the sequence of its tokens in the
\* backend's selector grammar: stream names, [filters], "+" and "/".

\* the reverse map sending one phrase to another phrase
get_quality_reverse_map_chained ==
    [q \in {"Best", "Lowest", "Beste", "Niedrigste", "Mejor", "Más baja",
            "Meilleure", "Plus faible",
            "High Quality", "Medium Quality", "Low Quality",
            "Hohe Qualität", "Mittlere Qualität", "Niedrige Qualität",
            "Alta calidad", "Calidad media", "Baja calidad",
            "Haute qualité", "Qualité moyenne", "Basse qualité"} |->
        CASE q \in {"Best", "Beste", "Mejor"} -> "Best"
          [] q = "Meilleure" -> "Beste"
          [] q \in {"Lowest", "Niedrigste", "Más baja", "Plus faible"} -> "Lowest"
          [] q \in {"High Quality", "Hohe Qualität", "Alta calidad", "Haute qualité"} -> "High"
          [] q \in {"Medium Quality", "Mittlere Qualität", "Calidad media", "Qualité moyenne"} -> "Medium"
          [] OTHER -> "Low"]

\* get_quality_reverse_map()
get_quality_reverse_map ==
    [q \in {"Best", "Lowest", "Beste", "Niedrigste", "Mejor", "Más baja",
            "Meilleure", "Plus faible",
            "High Quality", "Medium Quality", "Low Quality",
            "Hohe Qualität", "Mittlere Qualität", "Niedrige Qualität",
            "Alta calidad", "Calidad media", "Baja calidad",
            "Haute qualité", "Qualité moyenne", "Basse qualité"} |->
        CASE q \in {"Best", "Beste", "Mejor", "Meilleure"} -> "Best"
          [] q \in {"Lowest", "Niedrigste", "Más baja", "Plus faible"} -> "Lowest"
          [] q \in {"High Quality", "Hohe Qualität", "Alta calidad", "Haute qualité"} -> "High"
          [] q \in {"Medium Quality", "Mittlere Qualität", "Calidad media", "Qualité moyenne"} -> "Medium"
          [] OTHER -> "Low"]

\* dict.get(key, default)
dict_get(d, key, default) == IF key \in DOMAIN d THEN d[key] ELSE default

mp4_quality_formats ==
    [Best   |-> <<"bestvideo", "[ext=mp4]", "+", "bestaudio", "[ext=m4a]", "/", "best", "[ext=mp4]">>,
     Lowest |-> <<"worst", "[ext=mp4]">>] @@
    ("1080p" :> <<"bestvideo", "[height<=1080]", "[ext=mp4]", "+", "bestaudio", "[ext=m4a]", "/", "best", "[height<=1080]", "[ext=mp4]">>) @@
    ("720p"  :> <<"bestvideo", "[height<=720]", "[ext=mp4]", "+", "bestaudio", "[ext=m4a]", "/", "best", "[height<=720]", "[ext=mp4]">>) @@
    ("480p"  :> <<"bestvideo", "[height<=480]", "[ext=mp4]", "+", "bestaudio", "[ext=m4a]", "/", "best", "[height<=480]", "[ext=mp4]">>) @@
    ("360p"  :> <<"bestvideo", "[height<=360]", "[ext=mp4]", "+", "bestaudio", "[ext=m4a]", "/", "best", "[height<=360]", "[ext=mp4]">>)

webm_quality_formats ==
    [Best   |-> <<"bestvideo", "[ext=webm]", "+", "bestaudio", "[ext=webm]", "/", "best", "[ext=webm]">>,
     Lowest |-> <<"worst", "[ext=webm]">>] @@
    ("1080p" :> <<"bestvideo", "[height<=1080]", "[ext=webm]", "+", "bestaudio", "[ext=webm]", "/", "best", "[height<=1080]", "[ext=webm]">>) @@
    ("720p"  :> <<"bestvideo", "[height<=720]", "[ext=webm]", "+", "bestaudio", "[ext=webm]", "/", "best", "[height<=720]", "[ext=webm]">>) @@
    ("480p"  :> <<"bestvideo", "[height<=480]", "[ext=webm]", "+", "bestaudio", "[ext=webm]", "/", "best", "[height<=480]", "[ext=webm]">>) @@
    ("360p"  :> <<"bestvideo", "[height<=360]", "[ext=webm]", "+", "bestaudio", "[ext=webm]", "/", "best", "[height<=360]", "[ext=webm]">>)

\* the bitrates with the High tier encoded as the Medium one
audio_quality_map_flat == [High |-> "192", Medium |-> "192", Low |-> "128"]

\* lines 77-81
audio_quality_map == [High |-> "320", Medium |-> "192", Low |-> "128"]

audio_source_map ==
    [High   |-> <<"bestaudio", "[abr>=320]", "/", "bestaudio", "/", "best">>,
     Medium |-> <<"bestaudio", "[abr>=192]", "/", "bestaudio", "/", "best">>,
     Low    |-> <<"bestaudio", "[abr>=128]", "/", "bestaudio", "/", "best">>]

\* lines 49-50: quality_reverse_map.get(quality, quality)
standard_quality(quality) == dict_get(get_quality_reverse_map, quality, quality)

\* get_format_options with the High tier as the default of the audio formats
get_format_options_high_default(format_type, quality) ==
    LET standard == standard_quality(quality)
    IN  CASE format_type = "MP4" ->
               <<dict_get(mp4_quality_formats, standard, mp4_quality_formats["Best"]), <<>>>>
          [] format_type = "WEBM" ->
               <<dict_get(webm_quality_formats, standard, webm_quality_formats["Best"]), <<>>>>
          [] format_type = "MP3" ->
               <<<<"bestaudio", "/", "best">>,
                 <<[key |-> "FFmpegExtractAudio", preferredcodec |-> "mp3",
                    preferredquality |-> dict_get(audio_quality_map, standard, "320")]>> >>
          [] format_type = "WAV" ->
               <<dict_get(audio_source_map, standard, audio_source_map["High"]),
                 <<[key |-> "FFmpegExtractAudio", preferredcodec |-> "wav"]>> >>
          [] OTHER -> <<<<"best">>, <<>>>>

\* get_format_options(format_type, quality): <<format string, postprocessors>>
get_format_options(format_type, quality) ==
    LET standard == standard_quality(quality)
    IN  CASE format_type = "MP4" ->
               <<dict_get(mp4_quality_formats, standard, mp4_quality_formats["Best"]), <<>>>>
          [] format_type = "WEBM" ->
               <<dict_get(webm_quality_formats, standard, webm_quality_formats["Best"]), <<>>>>
          [] format_type = "MP3" ->
               <<<<"bestaudio", "/", "best">>,
                 <<[key |-> "FFmpegExtractAudio", preferredcodec |-> "mp3",
                    preferredquality |-> dict_get(audio_quality_map, standard, "192")]>> >>
          [] format_type = "WAV" ->
               <<dict_get(audio_source_map, standard, <<"bestaudio", "/", "best">>),
                 <<[key |-> "FFmpegExtractAudio", preferredcodec |-> "wav"]>> >>
          [] OTHER -> <<<<"best">>, <<>>>>


\* ------------------------------------------------------------ url_utils.py
\* URLs: a plain watch URL, a watch URL with a list parameter, a playlist
\* URL, and a /playlist path without a query string
UrlWatch == <<"h","t","t","p","s",":","/","/","x","/","w","a","t","c","h","?","v","=","a","b","c">>
UrlWatchList == <<"h","t","t","p","s",":","/","/","x","/","w","a","t","c","h","?","v","=","a","b","c","&","l","i","s","t","=","P","L","1","2","3">>
UrlPlaylist == <<"h","t","t","p","s",":","/","/","x","/","p","l","a","y","l","i","s","t","?","l","i","s","t","=","P","L","1","2","3">>
UrlPlaylistPath == <<"h","t","t","p","s",":","/","/","x","/","p","l","a","y","l","i","s","t">>

\* the texts of the URL field: the URLs above, a watch URL with an index
\* parameter, with an upper-case LIST parameter, with a parameter whose
\* name ends in "list", a URL between blanks, blanks only, and nothing
UrlEntries ==
    {UrlWatch, UrlWatchList, UrlPlaylist, UrlPlaylistPath,
     UrlWatch \o <<"&","i","n","d","e","x","=","2">>,
     UrlWatch \o <<"&","L","I","S","T","=","P","L","1","2","3">>,
     UrlWatch \o <<"&","p","l","a","y","l","i","s","t","=","1">>,
     <<" ">> \o UrlWatchList \o <<" ">>,
     <<" ", " ">>,
     <<>>}

\* str.lower() of one character
lower(c) ==
    LET UpperSeq == <<"A","B","C","D","E","F","G","H","I","J","K","L","M",
                      "N","O","P","Q","R","S","T","U","V","W","X","Y","Z">>
        LowerSeq == <<"a","b","c","d","e","f","g","h","i","j","k","l","m",
                      "n","o","p","q","r","s","t","u","v","w","x","y","z">>
    IN  IF \E i \in 1..26 : UpperSeq[i] = c
        THEN LowerSeq[CHOOSE i \in 1..26 : UpperSeq[i] = c]
        ELSE c

\* str.strip(): the text from its first to its last character that is
\* not whitespace
strip(s) ==
    LET keep == {i \in 1..Len(s) : s[i] \notin {" ", "\t", "\n", "\r"}}
    IN  IF keep = {}
        THEN <<>>
        ELSE SubSeq(s, CHOOSE i \in keep : \A k \in keep : i <= k,
                       CHOOSE j \in keep : \A k \in keep : k <= j)

\* the patterns without the one for index=
playlist_patterns_without_index ==
    << <<{"?", "&"}, {"l"}, {"i"}, {"s"}, {"t"}, {"="}>>,
       <<{"/"}, {"p"}, {"l"}, {"a"}, {"y"}, {"l"}, {"i"}, {"s"}, {"t"}, {"?"}>> >>

\* the patterns of lines 22-26, each a sequence of character classes
playlist_patterns ==
    << <<{"?", "&"}, {"l"}, {"i"}, {"s"}, {"t"}, {"="}>>,
       <<{"/"}, {"p"}, {"l"}, {"a"}, {"y"}, {"l"}, {"i"}, {"s"}, {"t"}, {"?"}>>,
       <<{"?", "&"}, {"i"}, {"n"}, {"d"}, {"e"}, {"x"}, {"="}>> >>

\* re.search(pattern, url, re.IGNORECASE) finds a match
re_search_ignorecase(pattern, url) ==
    \E i \in 1..(Len(url) - Len(pattern) + 1) :
        \A k \in 1..Len(pattern) : lower(url[i + k - 1]) \in pattern[k]

\* is_playlist_url(url)
is_playlist_url(url) ==
    \E p \in 1..Len(playlist_patterns) : re_search_ignorecase(playlist_patterns[p], url)

\* ------------------------------------------------------------------ state
VARIABLES
    request,            \* DownloadThread.__init__: format_type, quality, is_playlist
    pc,                 \* position of the worker in DownloadThread.run
    abort_requested,    \* DownloadThread.abort_requested
    successful_videos,  \* PlaylistErrorTracker.successful_videos
    skipped_videos,     \* PlaylistErrorTracker.skipped_videos
    failed_videos,      \* PlaylistErrorTracker.failed_videos
    warnings,           \* PlaylistErrorTracker.warnings
    console,            \* what the tracker printed
    ydl_opts,           \* the options run() hands to YoutubeDL
    events,             \* signals emitted by the worker, in order
    ui,                 \* the widgets download_finished sets
    nlog,               \* log lines the backend has reported
    nticks,             \* progress callbacks the backend has made
    caught,             \* str(e) of the Exception run() caught, "" when none
    abort_pc,           \* history: where the worker was when request_abort was called
    path,               \* history: the place in run() that emitted download_complete
    fed,                \* history: the <<level, line>> pairs the backend has reported
    video_url,          \* DownloadThread.video_url, the stripped text of the URL field
    prompted,           \* history: the button the playlist dialog returned, "none" when not shown
    ticks               \* history: the progress dicts progress_hook handled, with what it published

vars == <<request, pc, abort_requested, successful_videos, skipped_videos,
          failed_videos, warnings, console, ydl_opts, events, ui, nlog,
          nticks, caught, abort_pc, path, fed, video_url, prompted, ticks>>

tracker_vars == <<successful_videos, skipped_videos, failed_videos, warnings, console>>

\* the requests a session is constructed with
Requests ==
    { [format_type |-> "MP4", quality |-> "Best", is_playlist |-> TRUE],
      [format_type |-> "MP3", quality |-> "High Quality", is_playlist |-> FALSE] }

\* errors the backend invocation can raise (str(e))
BackendErrors == {"network unreachable"}

\* a key that is absent from a progress dict
Absent == -1

\* the progress dicts the backend passes to progress_hook
ProgressDicts ==
    { [status |-> "downloading", total_bytes |-> 2, total_bytes_estimate |-> Absent, downloaded_bytes |-> 1],
      [status |-> "downloading", total_bytes |-> Absent, total_bytes_estimate |-> Absent, downloaded_bytes |-> 1],
      [status |-> "finished", total_bytes |-> 2, total_bytes_estimate |-> Absent, downloaded_bytes |-> 2] }

\* progress dicts with exact and estimated totals, zero and absent keys,
\* quotients that are not exact in binary floating point, and byte counts
\* that have passed the total or its estimate
WideProgressDicts ==
    { [status |-> "downloading", total_bytes |-> 100, total_bytes_estimate |-> Absent, downloaded_bytes |-> 29],
      [status |-> "downloading", total_bytes |-> 100, total_bytes_estimate |-> Absent, downloaded_bytes |-> 57],
      [status |-> "downloading", total_bytes |-> 100, total_bytes_estimate |-> Absent, downloaded_bytes |-> Absent],
      [status |-> "downloading", total_bytes |-> 2, total_bytes_estimate |-> 4, downloaded_bytes |-> 1],
      [status |-> "downloading", total_bytes |-> 0, total_bytes_estimate |-> 4, downloaded_bytes |-> 3],
      [status |-> "downloading", total_bytes |-> Absent, total_bytes_estimate |-> 4, downloaded_bytes |-> 1],
      [status |-> "downloading", total_bytes |-> Absent, total_bytes_estimate |-> 3, downloaded_bytes |-> 1],
      [status |-> "downloading", total_bytes |-> Absent, total_bytes_estimate |-> Absent, downloaded_bytes |-> 1],
      [status |-> "downloading", total_bytes |-> 0, total_bytes_estimate |-> 0, downloaded_bytes |-> 1],
      [status |-> "downloading", total_bytes |-> 2, total_bytes_estimate |-> Absent, downloaded_bytes |-> 3],
      [status |-> "downloading", total_bytes |-> Absent, total_bytes_estimate |-> 4, downloaded_bytes |-> 5],
      [status |-> "finished", total_bytes |-> 2, total_bytes_estimate |-> Absent, downloaded_bytes |-> 2],
      [status |-> "finished", total_bytes |-> Absent, total_bytes_estimate |-> Absent, downloaded_bytes |-> Absent] }

NoOpts == [format |-> <<>>, postprocessors |-> <<>>, outtmpl |-> <<>>, noplaylist |-> FALSE]

\* main_window.start_download, lines 252-257: the widgets while a session runs
UiDownloading ==
    [download_enabled |-> FALSE, download_text |-> "Downloading...",
     abort_visible |-> TRUE, abort_enabled |-> TRUE, abort_text |-> "Abort",
     progress_visible |-> TRUE, progress_value |-> 0,
     status_text |-> Fmt("", <<>>), status_color |-> "green",
     dialog |-> "none", dialog_message |-> Fmt("", <<>>), dialog_videos |-> <<>>]

\* main_window.__init__, lines 118-146: the widgets before any session
UiIdle ==
    [download_enabled |-> TRUE, download_text |-> texts["download_button"],
     abort_visible |-> FALSE, abort_enabled |-> TRUE, abort_text |-> "Abort",
     progress_visible |-> FALSE, progress_value |-> 0,
     status_text |-> Fmt("", <<>>), status_color |-> "green",
     dialog |-> "none", dialog_message |-> Fmt("", <<>>), dialog_videos |-> <<>>]

\* the items of format_combo (line 100)
Formats == {"MP4", "WEBM", "MP3", "WAV"}

\* populate_quality_options: the items of quality_combo for a format
populate_quality_options(current_format) ==
    IF current_format \in {"MP4", "WEBM"}
    THEN {texts_get("quality_best", "Best"), "1080p", "720p", "480p", "360p",
          texts_get("quality_lowest", "Lowest")}
    ELSE {texts_get("audio_quality_high", "High Quality"),
          texts_get("audio_quality_medium", "Medium Quality"),
          texts_get("audio_quality_low", "Low Quality")}

\* what clickedButton() can be when the playlist dialog closes
DialogButtons == {"playlist_button", "single_button", "closed"}

\* the state after DownloadThread.__init__ (main_window.start_download, line 263)
Init ==
    /\ request \in Requests
    /\ pc = "idle"
    /\ abort_requested = FALSE
    /\ successful_videos = <<>>
    /\ skipped_videos = <<>>
    /\ failed_videos = <<>>
    /\ warnings = <<>>
    /\ console = <<>>
    /\ ydl_opts = NoOpts
    /\ events = <<>>
    /\ ui = UiDownloading
    /\ nlog = 0
    /\ nticks = 0
    /\ caught = ""
    /\ abort_pc = "none"
    /\ path = "none"
    /\ fed = {}
    /\ video_url = UrlWatchList
    /\ prompted = "none"
    /\ ticks = <<>>

\* ---------------------------------------- main_window.py, start_download
\* the window after VideoDownloaderApp.__init__: no DownloadThread yet
InitGui ==
    /\ request = [format_type |-> "", quality |-> "", is_playlist |-> FALSE]
    /\ pc = "no_thread"
    /\ abort_requested = FALSE
    /\ successful_videos = <<>>
    /\ skipped_videos = <<>>
    /\ failed_videos = <<>>
    /\ warnings = <<>>
    /\ console = <<>>
    /\ ydl_opts = NoOpts
    /\ events = <<>>
    /\ ui = UiIdle
    /\ nlog = 0
    /\ nticks = 0
    /\ caught = ""
    /\ abort_pc = "none"
    /\ path = "none"
    /\ fed = {}
    /\ video_url = <<>>
    /\ prompted = "none"
    /\ ticks = <<>>

\* lines 251-267 leaving the download button enabled
start_thread_button_enabled(url, format_type, quality, is_playlist) ==
    /\ ui' = [ui EXCEPT !.download_text = texts_get("downloading_button", "Downloading..."),
                        !.abort_visible = TRUE,
                        !.abort_enabled = TRUE,
                        !.progress_visible = TRUE,
                        !.progress_value = 0]
    /\ video_url' = url
    /\ request' = [format_type |-> format_type, quality |-> quality, is_playlist |-> is_playlist]
    /\ pc' = "run"
    /\ abort_requested' = FALSE
    /\ successful_videos' = <<>>
    /\ skipped_videos' = <<>>
    /\ failed_videos' = <<>>
    /\ warnings' = <<>>
    /\ console' = <<>>
    /\ ydl_opts' = NoOpts
    /\ events' = <<>>
    /\ nlog' = 0
    /\ nticks' = 0
    /\ caught' = ""
    /\ abort_pc' = "none"
    /\ path' = "none"
    /\ fed' = {}
    /\ ticks' = <<>>

\* lines 251-267: the widgets change to the downloading state, a new
\* thread is constructed (lines 135-158: no abort requested, nothing
\* tracked or emitted yet), its signals are connected and it is started
start_thread(url, format_type, quality, is_playlist) ==
    /\ ui' = [ui EXCEPT !.download_enabled = FALSE,
                        !.download_text = texts_get("downloading_button", "Downloading..."),
                        !.abort_visible = TRUE,
                        !.abort_enabled = TRUE,
                        !.progress_visible = TRUE,
                        !.progress_value = 0]
    /\ video_url' = url
    /\ request' = [format_type |-> format_type, quality |-> quality, is_playlist |-> is_playlist]
    /\ pc' = "run"
    /\ abort_requested' = FALSE
    /\ successful_videos' = <<>>
    /\ skipped_videos' = <<>>
    /\ failed_videos' = <<>>
    /\ warnings' = <<>>
    /\ console' = <<>>
    /\ ydl_opts' = NoOpts
    /\ events' = <<>>
    /\ nlog' = 0
    /\ nticks' = 0
    /\ caught' = ""
    /\ abort_pc' = "none"
    /\ path' = "none"
    /\ fed' = {}
    /\ ticks' = <<>>

\* start_download without the check of lines 238-240
start_download_unvalidated(entries, formats) ==
    /\ ui.download_enabled
    /\ pc # "playlist_dialog"
    /\ \E text \in entries, format_type \in formats :
          \E quality \in populate_quality_options(format_type) :
             LET url == strip(text)
             IN  IF is_playlist_url(url)
                 THEN /\ video_url' = url
                      /\ request' = [format_type |-> format_type, quality |-> quality,
                                     is_playlist |-> FALSE]
                      /\ pc' = "playlist_dialog"
                      /\ UNCHANGED <<ui, prompted, ticks, abort_requested, tracker_vars,
                                     ydl_opts, events, nlog, nticks, caught, abort_pc, path, fed>>
                 ELSE /\ start_thread(url, format_type, quality, FALSE)
                      /\ prompted' = "none"

\* start_download up to the playlist dialog (lines 235-249), and to its
\* end when the dialog is not shown: an empty URL field is rejected, a
\* playlist URL opens the modal dialog, any other URL starts the thread.
\* The handler runs on a click of the download button, which takes an
\* enabled button and no modal dialog in front of the window; it reads
\* the URL field and the format and quality boxes
start_download_with(entries, formats) ==
    /\ ui.download_enabled
    /\ pc # "playlist_dialog"
    /\ \E text \in entries, format_type \in formats :
          \E quality \in populate_quality_options(format_type) :
             LET url == strip(text)
             IN  IF url = <<>>
                 THEN /\ ui' = [ui EXCEPT !.dialog = "critical",
                                          !.dialog_message = Fmt(texts["url_error"], <<>>),
                                          !.dialog_videos = <<>>]
                      /\ UNCHANGED <<request, video_url, pc, prompted, ticks, abort_requested,
                                     tracker_vars, ydl_opts, events, nlog, nticks, caught,
                                     abort_pc, path, fed>>
                 ELSE IF is_playlist_url(url)
                 THEN /\ video_url' = url
                      /\ request' = [format_type |-> format_type, quality |-> quality,
                                     is_playlist |-> FALSE]
                      /\ pc' = "playlist_dialog"
                      /\ UNCHANGED <<ui, prompted, ticks, abort_requested, tracker_vars,
                                     ydl_opts, events, nlog, nticks, caught, abort_pc, path, fed>>
                 ELSE /\ start_thread(url, format_type, quality, FALSE)
                      /\ prompted' = "none"

\* start_download with any text in the URL field and any format
start_download == start_download_with(UrlEntries, Formats)

\* start_download in a window whose user keeps to one format and enters
\* nothing, blanks, a video URL or a video URL with a list parameter
start_download_again ==
    start_download_with({<<>>, <<" ", " ">>, UrlWatch, UrlWatchList}, {"MP3"})

\* the playlist dialog answering whatever was clicked
show_playlist_dialog_always_playlist ==
    /\ pc = "playlist_dialog"
    /\ \E clicked \in DialogButtons :
          /\ prompted' = clicked
          /\ start_thread(video_url, request.format_type, request.quality, TRUE)

\* dialogs.show_playlist_dialog returns clickedButton() == playlist_button
\* and start_download goes on with lines 251-267
show_playlist_dialog ==
    /\ pc = "playlist_dialog"
    /\ \E clicked \in DialogButtons :
          /\ prompted' = clicked
          /\ start_thread(video_url, request.format_type, request.quality,
                          clicked = "playlist_button")

\* abort_download (lines 269-280), on a click of the abort button: while
\* the thread is running it requests the abort, disables the button and
\* shows the aborting status. After run() has emitted download_complete
\* the thread may or may not still count as running
abort_download ==
    /\ ui.abort_visible /\ ui.abort_enabled
    /\ pc \in {"run", "download", "returned", "reduce", "except_keyboard_interrupt",
               "except_exception", "except_emit", "done"}
    /\ abort_requested' = TRUE
    /\ abort_pc' = IF abort_requested THEN abort_pc ELSE pc
    /\ ui' = [ui EXCEPT !.abort_enabled = FALSE,
                        !.abort_text = texts_get("aborting_button", "Aborting..."),
                        !.status_text = Fmt(texts_get("aborting_status", "Aborting download..."), <<>>),
                        !.status_color = "orange"]
    /\ UNCHANGED <<request, video_url, prompted, ticks, pc, tracker_vars, ydl_opts, events, nlog,
                   nticks, caught, path, fed>>

\* ------------------------------------------------------------ the caller
\* DownloadThread.request_abort(), called from the caller's thread at any
\* time; a repeated call changes nothing
request_abort ==
    /\ abort_requested = FALSE
    /\ abort_requested' = TRUE
    /\ abort_pc' = pc
    /\ UNCHANGED <<request, video_url, prompted, ticks, pc, tracker_vars, ydl_opts, events, ui, nlog, nticks,
                   caught, path, fed>>

\* QThread.start(): the worker begins run()
start ==
    /\ pc = "idle"
    /\ pc' = "run"
    /\ UNCHANGED <<request, video_url, prompted, ticks, abort_requested, tracker_vars, ydl_opts, events, ui,
                   nlog, nticks, caught, abort_pc, path, fed>>

\* ------------------------------------------------ DownloadThread.run, head
\* lines 198-200: abort requested before the worker started
run_abort_before_start ==
    /\ pc = "run"
    /\ abort_requested
    /\ events' = Append(events, download_complete(FALSE, download_aborted_msg, <<>>))
    /\ pc' = "done"
    /\ UNCHANGED <<request, video_url, prompted, ticks, abort_requested, tracker_vars, ydl_opts, ui, nlog,
                   nticks, caught, abort_pc, fed>>
    /\ path' = "before_start"

\* the output template of lines 213-216
filename_template(format_type, quality) ==
    IF format_type \in {"MP4", "WEBM"}
    THEN <<"%(title)s-", quality, ".%(ext)s">>
    ELSE <<"%(title)s.%(ext)s">>

\* lines 203-204 in the other order
starting_signals_reversed ==
    <<progress_update(0), status_update(Fmt(texts["downloading"], <<>>), "blue")>>

\* lines 203-204: the starting status, then 0% progress
starting_signals ==
    <<status_update(Fmt(texts["downloading"], <<>>), "blue"), progress_update(0)>>

\* run() without the check of lines 198-200
run_starting_unchecked ==
    /\ pc = "run"
    /\ events' = events \o starting_signals
    /\ LET opts == get_format_options(request.format_type, request.quality)
       IN  ydl_opts' = [format |-> opts[1],
                        postprocessors |-> opts[2],
                        outtmpl |-> filename_template(request.format_type, request.quality),
                        noplaylist |-> ~request.is_playlist]
    /\ pc' = "download"
    /\ UNCHANGED <<request, video_url, prompted, ticks, abort_requested, tracker_vars, ui, nlog, nticks, caught, abort_pc, path, fed>>

\* lines 203-256: starting status, 0% progress, backend options
run_starting ==
    /\ pc = "run"
    /\ ~abort_requested
    /\ events' = events \o starting_signals
    /\ LET opts == get_format_options(request.format_type, request.quality)
       IN  ydl_opts' = [format |-> opts[1],
                        postprocessors |-> opts[2],
                        outtmpl |-> filename_template(request.format_type, request.quality),
                        noplaylist |-> ~request.is_playlist]
    /\ pc' = "download"
    /\ UNCHANGED <<request, video_url, prompted, ticks, abort_requested, tracker_vars, ui, nlog, nticks, caught, abort_pc, path, fed>>


\* ------------------------------------- the backend's calls to the logger
\* PlaylistErrorTracker.debug
logger_debug(msg) ==
    /\ UNCHANGED tracker_vars

\* PlaylistErrorTracker.info, the successful list after the line
info_successful(successful, msg) ==
    IF Contains(DestinationTag, msg)
    THEN LET video_id == extract_video_id_from_msg(msg)
             title    == extract_title_from_msg(msg)
         IN  IF video_id # None /\ ~HasId(successful, video_id)
             THEN Append(successful, [id |-> video_id, title |-> title, message |-> msg])
             ELSE successful
    ELSE successful

\* PlaylistErrorTracker.info, the skipped list after the line
info_skipped(skipped, msg) ==
    IF ~Contains(DestinationTag, msg)
       /\ (Contains(AlreadyDownloaded, msg) \/ Contains(Skipping, msg))
    THEN LET video_id == extract_video_id_from_msg(msg)
             title    == IF ~Contains(DestinationTag, msg)
                         THEN extract_title_from_msg(msg)
                         ELSE extract_skipped_title(msg)
         IN  IF video_id # None /\ ~HasId(skipped, video_id)
             THEN Append(skipped, [id |-> video_id, title |-> title, message |-> msg])
             ELSE skipped
    ELSE skipped

\* PlaylistErrorTracker.info
logger_info(msg) ==
    /\ successful_videos' = info_successful(successful_videos, msg)
    /\ skipped_videos' = info_skipped(skipped_videos, msg)
    /\ UNCHANGED <<failed_videos, warnings, console>>

WarningPrefix == <<"W","A","R","N","I","N","G",":"," ">>
ErrorPrefix == <<"E","R","R","O","R",":"," ">>

\* PlaylistErrorTracker.warning
logger_warning(msg) ==
    /\ warnings' = Append(warnings, msg)
    /\ console' = IF ~(Contains(SabrStreaming, msg) \/ Contains(MissingUrl, msg))
                  THEN Append(console, WarningPrefix \o msg)
                  ELSE console
    /\ UNCHANGED <<successful_videos, skipped_videos, failed_videos>>

\* error() recording the line whether or not it names an item
error_failed_unattributed(failed, msg) ==
    LET video_info == extract_error_info(msg)
    IN  IF video_info # <<>> THEN Append(failed, video_info[1])
        ELSE Append(failed, [id |-> UnknownId, title |-> UnknownVideo,
                             error |-> msg, url |-> WatchUrlPrefix \o UnknownId])

\* PlaylistErrorTracker.error, the failed list after the line
error_failed(failed, msg) ==
    LET video_info == extract_error_info(msg)
    IN  IF video_info # <<>> THEN Append(failed, video_info[1]) ELSE failed

\* PlaylistErrorTracker.error
logger_error(msg) ==
    /\ failed_videos' = error_failed(failed_videos, msg)
    /\ console' = Append(console, ErrorPrefix \o msg)
    /\ UNCHANGED <<successful_videos, skipped_videos, warnings>>

\* the backend reports a line at some level while ydl.download runs
backend_debug ==
    /\ pc = "download" /\ nlog < MaxLogLines
    /\ \E msg \in DebugLines :
          /\ logger_debug(msg)
          /\ fed' = fed \cup {<<"debug", msg>>}
    /\ nlog' = nlog + 1
    /\ UNCHANGED <<request, video_url, prompted, ticks, pc, abort_requested, ydl_opts, events, ui, nticks,
                   caught, abort_pc, path>>

backend_info ==
    /\ pc = "download" /\ nlog < MaxLogLines
    /\ \E msg \in DestLines \cup SkipLines :
          /\ logger_info(msg)
          /\ fed' = fed \cup {<<"info", msg>>}
    /\ nlog' = nlog + 1
    /\ UNCHANGED <<request, video_url, prompted, ticks, pc, abort_requested, ydl_opts, events, ui, nticks,
                   caught, abort_pc, path>>

backend_warning ==
    /\ pc = "download" /\ nlog < MaxLogLines
    /\ \E msg \in WarningLines :
          /\ logger_warning(msg)
          /\ fed' = fed \cup {<<"warning", msg>>}
    /\ nlog' = nlog + 1
    /\ UNCHANGED <<request, video_url, prompted, ticks, pc, abort_requested, ydl_opts, events, ui, nticks,
                   caught, abort_pc, path>>

\* an error-level line raising into the backend instead of returning
backend_error_raising ==
    /\ pc = "download" /\ nlog < MaxLogLines
    /\ \E msg \in ErrorLines :
          /\ logger_error(msg)
          /\ fed' = fed \cup {<<"error", msg>>}
    /\ nlog' = nlog + 1
    /\ pc' = "except_exception"
    /\ caught' = "error"
    /\ UNCHANGED <<request, video_url, prompted, ticks, abort_requested, ydl_opts, events, ui, nticks,
                   abort_pc, path>>

\* the backend reports an error-level line; with 'ignoreerrors' (line 241)
\* it goes on with the next item
backend_error ==
    /\ pc = "download" /\ nlog < MaxLogLines
    /\ \E msg \in ErrorLines :
          /\ logger_error(msg)
          /\ fed' = fed \cup {<<"error", msg>>}
    /\ nlog' = nlog + 1
    /\ UNCHANGED <<request, video_url, prompted, ticks, pc, abort_requested, ydl_opts, events, ui, nticks,
                   caught, abort_pc, path>>

\* the characters of the labels the quality box offers for the video
\* formats in the four languages, as line 214 formats them into the
\* file name
quality_chars ==
    [l \in {"Best", "Beste", "Mejor", "Meilleure", "Lowest", "Niedrigste",
            "Más baja", "Plus faible", "1080p", "720p", "480p", "360p"} |->
        CASE l = "Best"        -> <<"B","e","s","t">>
          [] l = "Beste"       -> <<"B","e","s","t","e">>
          [] l = "Mejor"       -> <<"M","e","j","o","r">>
          [] l = "Meilleure"   -> <<"M","e","i","l","l","e","u","r","e">>
          [] l = "Lowest"      -> <<"L","o","w","e","s","t">>
          [] l = "Niedrigste"  -> <<"N","i","e","d","r","i","g","s","t","e">>
          [] l = "Más baja"    -> <<"M","á","s"," ","b","a","j","a">>
          [] l = "Plus faible" -> <<"P","l","u","s"," ","f","a","i","b","l","e">>
          [] l = "1080p"       -> <<"1","0","8","0","p">>
          [] l = "720p"        -> <<"7","2","0","p">>
          [] l = "480p"        -> <<"4","8","0","p">>
          [] l = "360p"        -> <<"3","6","0","p">>]

\* titles of the items the backend downloads
Titles == {<<"S","o","n","g">>, <<"M","y","-","m","i","x">>}

\* the line the backend logs when it starts writing a file: the output
\* template of lines 213-219 (folder, title, quality label for the video
\* formats, extension) filled in for an item
destination_line(outtmpl, title, ext) ==
    DestinationTag \o <<" ", "/", "o", "u", "t", "/">> \o title
        \o (IF Len(outtmpl) = 3 THEN <<"-">> \o quality_chars[outtmpl[2]] ELSE <<>>)
        \o <<".">> \o ext

\* the backend reports the destination of an item of the session
backend_destination ==
    /\ pc = "download" /\ nlog < MaxLogLines
    /\ Len(ydl_opts.outtmpl) = 3 => ydl_opts.outtmpl[2] \in DOMAIN quality_chars
    /\ \E title \in Titles, ext \in {<<"m","p","4">>, <<"w","e","b","m">>} :
          LET msg == destination_line(ydl_opts.outtmpl, title, ext)
          IN  /\ logger_info(msg)
              /\ fed' = fed \cup {<<"info", msg>>}
    /\ nlog' = nlog + 1
    /\ UNCHANGED <<request, video_url, prompted, ticks, pc, abort_requested, ydl_opts, events, ui, nticks,
                   caught, abort_pc, path>>

\* ------------------------------------------ DownloadThread.progress_hook
\* 'key' in d and d[key]
HasValue(v) == v # Absent /\ v # 0

\* 2^n
RECURSIVE pow2(_)
pow2(n) == IF n = 0 THEN 1 ELSE 2 * pow2(n - 1)

\* the e with 2^e <= downloaded / total < 2^(e+1), searched from e
RECURSIVE binade(_, _, _)
binade(downloaded, total, e) ==
    IF downloaded >= total
    THEN IF total * pow2(e + 1) <= downloaded THEN binade(downloaded, total, e + 1) ELSE e
    ELSE IF downloaded * pow2(-e) >= total THEN e ELSE binade(downloaded, total, e - 1)

\* <<(r * 2^k) mod total, the last bit of floor(r * 2^k / total)>>
RECURSIVE shifted_remainder(_, _, _, _)
shifted_remainder(r, bit, k, total) ==
    IF k = 0
    THEN <<r, bit>>
    ELSE shifted_remainder((2 * r) % total, (2 * r) \div total, k - 1, total)

\* the percentage still to download
percent_remaining(downloaded, total) == 100 - ((downloaded * 100) \div total)

\* int((downloaded / total) * 100) in IEEE 754 double precision, for byte
\* counts below 2^20.  The quotient is rounded to 53 significant bits:
\* with s = 52 - e it is (floor(downloaded * 2^s / total) + c) / 2^s, where
\* r is the remainder of that division and c = 1 when it rounds up (ties
\* to even).  Times 100 that is exactly
\*     100 * downloaded / total + 100 * (c * total - r) / (total * 2^s),
\* which is rounded to 53 bits again and truncated.  When 100 * downloaded
\* / total is not an integer, or the quotient is exact or rounded up, the
\* result is K = floor(100 * downloaded / total).  When it is the integer
\* K and the quotient rounded down, the product lies below K and rounds
\* back to K only if it is within half a unit in the last place of the
\* doubles below K, 2^(j - 53) with 2^j < K <= 2^(j+1); otherwise the
\* result is K - 1.
percent(downloaded, total) ==
    IF downloaded = 0
    THEN 0
    ELSE LET e == binade(downloaded, total, IF downloaded >= total THEN 0 ELSE -1)
             sr == shifted_remainder(downloaded % total, 0, 52 - e, total)
             r == sr[1]
             round_up == 2 * r > total \/ (2 * r = total /\ sr[2] = 1)
             K == (100 * downloaded) \div total
             exact == (100 * downloaded) % total = 0
             j == CHOOSE j \in -1..30 : pow2(j + 1) >= K /\ (j >= 0 => pow2(j) < K)
         IN  IF ~exact \/ r = 0 \/ round_up \/ 100 * r <= total * pow2(j - e - 1)
             THEN K
             ELSE K - 1

\* the signals progress_hook emits for d when no abort is requested
progress_signals(d) ==
    IF d.status = "downloading"
    THEN LET downloaded == IF d.downloaded_bytes = Absent THEN 0 ELSE d.downloaded_bytes
         IN  IF HasValue(d.total_bytes)
             THEN <<progress_update(percent(downloaded, d.total_bytes))>>
             ELSE IF HasValue(d.total_bytes_estimate)
                  THEN <<progress_update(percent(downloaded, d.total_bytes_estimate))>>
                  ELSE <<>>
    ELSE IF d.status = "finished"
         THEN <<progress_update(100)>>
         ELSE <<>>

\* progress_hook called by the backend with one of dicts: it raises
\* KeyboardInterrupt into the backend when an abort is requested, which
\* ydl.download propagates to run()
progress_callback(dicts) ==
    /\ pc = "download" /\ nticks < MaxTicks
    /\ nticks' = nticks + 1
    /\ \E d \in dicts :
          IF abort_requested
          THEN /\ pc' = "except_keyboard_interrupt"
               /\ UNCHANGED <<events, ticks>>
          ELSE /\ events' = events \o progress_signals(d)
               /\ ticks' = Append(ticks, [d |-> d, published |-> progress_signals(d)])
               /\ UNCHANGED pc
    /\ UNCHANGED <<request, video_url, prompted, abort_requested, tracker_vars, ydl_opts, ui,
                   nlog, caught, abort_pc, path, fed>>

\* progress_hook without the check of lines 174-176
progress_hook_unchecked ==
    /\ pc = "download" /\ nticks < MaxTicks
    /\ nticks' = nticks + 1
    /\ \E d \in ProgressDicts :
          /\ events' = events \o progress_signals(d)
          /\ ticks' = Append(ticks, [d |-> d, published |-> progress_signals(d)])
          /\ UNCHANGED pc
    /\ UNCHANGED <<request, video_url, prompted, abort_requested, tracker_vars, ydl_opts, ui,
                   nlog, caught, abort_pc, path, fed>>

\* progress_hook in a session whose backend reports the dicts above
progress_hook == progress_callback(ProgressDicts)

\* progress_hook in a session whose backend reports byte counts of every kind
progress_hook_wide == progress_callback(WideProgressDicts)

\* ydl.download returns (line 260)
backend_return ==
    /\ pc = "download"
    /\ pc' = "returned"
    /\ UNCHANGED <<request, video_url, prompted, ticks, abort_requested, tracker_vars, ydl_opts, events, ui,
                   nlog, nticks, caught, abort_pc, path, fed>>

\* ydl.download raises an Exception; the handler of line 305 binds it
backend_raise ==
    /\ pc = "download"
    /\ pc' = "except_exception"
    /\ \E e \in BackendErrors : caught' = e
    /\ UNCHANGED <<request, video_url, prompted, ticks, abort_requested, tracker_vars, ydl_opts, events, ui,
                   nlog, nticks, abort_pc, path, fed>>


\* ------------------------------------------------ DownloadThread.run, tail
\* lines 263-265 returning without the emit of line 264
run_abort_after_return_silent ==
    /\ pc = "returned"
    /\ abort_requested
    /\ pc' = "done"
    /\ UNCHANGED <<request, video_url, prompted, ticks, abort_requested, tracker_vars, ydl_opts, ui, nlog,
                   nticks, caught, abort_pc, fed, events>>
    /\ path' = "after_return"

\* lines 263-265: abort noticed after the backend returned
run_abort_after_return ==
    /\ pc = "returned"
    /\ abort_requested
    /\ events' = Append(events, download_complete(FALSE, download_aborted_msg, <<>>))
    /\ pc' = "done"
    /\ UNCHANGED <<request, video_url, prompted, ticks, abort_requested, tracker_vars, ydl_opts, ui, nlog,
                   nticks, caught, abort_pc, fed>>
    /\ path' = "after_return"

\* the worker going on to the reduction without the check of line 263
run_not_aborted_unchecked ==
    /\ pc = "returned"
    /\ pc' = "reduce"
    /\ UNCHANGED <<request, video_url, prompted, ticks, abort_requested, tracker_vars, ydl_opts, events, ui,
                   nlog, nticks, caught, abort_pc, path, fed>>

\* line 263 when no abort is requested: the worker goes on to the reduction
run_not_aborted ==
    /\ pc = "returned"
    /\ ~abort_requested
    /\ pc' = "reduce"
    /\ UNCHANGED <<request, video_url, prompted, ticks, abort_requested, tracker_vars, ydl_opts, events, ui,
                   nlog, nticks, caught, abort_pc, path, fed>>

\* lines 276-279: complete success, all new downloads
reduce_complete == <<TRUE, download_complete_msg, <<>>>>

\* the skips row reporting the skipped records as items
reduce_with_skips_listing_skipped(successful_count, skipped, is_playlist) ==
    <<TRUE,
      IF is_playlist /\ Len(skipped) > 0
      THEN download_with_skips_msg(successful_count, Len(skipped))
      ELSE download_skipped_msg,
      skipped>>

\* lines 280-287: success with skips, no failures
reduce_with_skips(successful_count, skipped, is_playlist) ==
    <<TRUE,
      IF is_playlist /\ Len(skipped) > 0
      THEN download_with_skips_msg(successful_count, Len(skipped))
      ELSE download_skipped_msg,
      <<>>>>

\* the mixed row emitting an empty list, as the two rows before it do
reduce_mixed_without_items(successful_count, skipped_count, failed, is_playlist) ==
    <<successful_count > 0,
      IF is_playlist
      THEN download_mixed_results_msg(successful_count, skipped_count, Len(failed))
      ELSE download_failed_msg,
      <<>>>>

\* lines 288-295: mixed results, some successful or skipped, some failed
reduce_mixed(successful_count, skipped_count, failed, is_playlist) ==
    <<successful_count > 0,
      IF is_playlist
      THEN download_mixed_results_msg(successful_count, skipped_count, Len(failed))
      ELSE download_failed_msg,
      failed>>

\* the all-failed row emitting an empty list, as line 264 does
reduce_all_failed_without_items(failed) == <<FALSE, download_all_failed_msg, <<>>>>

\* lines 296-299: complete failure, nothing downloaded or skipped
reduce_all_failed(failed) == <<FALSE, download_all_failed_msg, failed>>

\* lines 268-299: the arguments of download_complete.emit
reduction(successful, skipped, failed, is_playlist) ==
    LET successful_count == Len(successful)
        failed_count     == Len(failed)
        skipped_count    == Len(skipped)
    IN  IF failed_count = 0 /\ skipped_count = 0
        THEN reduce_complete
        ELSE IF failed_count = 0 /\ skipped_count > 0
        THEN reduce_with_skips(successful_count, skipped, is_playlist)
        ELSE IF successful_count > 0 \/ skipped_count > 0
        THEN reduce_mixed(successful_count, skipped_count, failed, is_playlist)
        ELSE reduce_all_failed(failed)

\* lines 268-299
run_reduce ==
    /\ pc = "reduce"
    /\ LET r == reduction(successful_videos, skipped_videos, failed_videos,
                          request.is_playlist)
       IN  events' = Append(events, download_complete(r[1], r[2], r[3]))
    /\ pc' = "done"
    /\ UNCHANGED <<request, video_url, prompted, ticks, abort_requested, tracker_vars, ydl_opts, ui, nlog,
                   nticks, caught, abort_pc, fed>>
    /\ path' = "reduce"

\* lines 301-304: except KeyboardInterrupt
run_except_keyboard_interrupt ==
    /\ pc = "except_keyboard_interrupt"
    /\ events' = Append(events, download_complete(FALSE, download_aborted_msg, failed_videos))
    /\ pc' = "done"
    /\ UNCHANGED <<request, video_url, prompted, ticks, abort_requested, tracker_vars, ydl_opts, ui, nlog,
                   nticks, caught, abort_pc, fed>>
    /\ path' = "keyboard_interrupt"

\* lines 305-309: except Exception, abort requested
run_except_aborted ==
    /\ pc = "except_exception"
    /\ abort_requested
    /\ events' = Append(events, download_complete(FALSE, download_aborted_msg, failed_videos))
    /\ pc' = "done"
    /\ UNCHANGED <<request, video_url, prompted, ticks, abort_requested, tracker_vars, ydl_opts, ui, nlog,
                   nticks, caught, abort_pc, fed>>
    /\ path' = "except_aborted"

\* the handler of line 305 without the check of line 308
run_except_not_aborted_unchecked ==
    /\ pc = "except_exception"
    /\ pc' = "except_emit"
    /\ UNCHANGED <<request, video_url, prompted, ticks, abort_requested, tracker_vars, ydl_opts, events, ui,
                   nlog, nticks, caught, abort_pc, path, fed>>

\* line 308 when no abort is requested
run_except_not_aborted ==
    /\ pc = "except_exception"
    /\ ~abort_requested
    /\ pc' = "except_emit"
    /\ UNCHANGED <<request, video_url, prompted, ticks, abort_requested, tracker_vars, ydl_opts, events, ui,
                   nlog, nticks, caught, abort_pc, path, fed>>

\* line 311 emitting an empty list, as line 264 does
run_except_emit_without_items ==
    /\ pc = "except_emit"
    /\ events' = Append(events, download_complete(FALSE, download_exception_msg(caught), <<>>))
    /\ pc' = "done"
    /\ UNCHANGED <<request, video_url, prompted, ticks, abort_requested, tracker_vars, ydl_opts, ui, nlog,
                   nticks, caught, abort_pc, fed>>
    /\ path' = "except"

\* line 311
run_except_emit ==
    /\ pc = "except_emit"
    /\ events' = Append(events, download_complete(FALSE, download_exception_msg(caught), failed_videos))
    /\ pc' = "done"
    /\ UNCHANGED <<request, video_url, prompted, ticks, abort_requested, tracker_vars, ydl_opts, ui, nlog,
                   nticks, caught, abort_pc, fed>>
    /\ path' = "except"

\* ------------------------------------- main_window.py, download_finished
\* the widgets after download_finished(success, message, failed)
finished_ui(success, message, failed) ==
    LET reset == [download_enabled |-> TRUE, download_text |-> texts["download_button"],
                  abort_visible |-> FALSE, abort_enabled |-> TRUE, abort_text |-> "Abort",
                  progress_visible |-> FALSE, progress_value |-> 0]
    IN  IF success /\ failed = <<>>
        THEN reset @@ [status_text |-> download_complete_msg, status_color |-> "green",
                       dialog |-> "information", dialog_message |-> download_complete_msg,
                       dialog_videos |-> <<>>]
        ELSE IF success /\ failed # <<>>
        THEN reset @@ [status_text |-> message, status_color |-> "orange",
                       dialog |-> "failed_videos", dialog_message |-> message,
                       dialog_videos |-> failed]
        ELSE reset @@ [status_text |-> download_failed_msg, status_color |-> "red",
                       dialog |-> IF failed # <<>> THEN "failed_videos" ELSE "critical",
                       dialog_message |-> message,
                       dialog_videos |-> failed]

\* the queued download_complete signal reaches the slot
download_finished ==
    /\ pc = "done"
    /\ LET last == events[Len(events)]
       IN  ui' = finished_ui(last.args[1], last.args[2], last.args[3])
    /\ pc' = "finished"
    /\ UNCHANGED <<request, video_url, prompted, ticks, abort_requested, tracker_vars, ydl_opts, events, nlog,
                   nticks, caught, abort_pc, path, fed>>

\* ---------------------------------------------------------- specification
Next ==
    \/ request_abort
    \/ start
    \/ run_abort_before_start
    \/ run_starting
    \/ backend_debug
    \/ backend_info
    \/ backend_warning
    \/ backend_error
    \/ progress_hook
    \/ backend_return
    \/ backend_raise
    \/ run_abort_after_return
    \/ run_not_aborted
    \/ run_reduce
    \/ run_except_keyboard_interrupt
    \/ run_except_aborted
    \/ run_except_not_aborted
    \/ run_except_emit
    \/ download_finished

Spec == Init /\ [][Next]_vars

\* the window from its construction to the backend options of the session
SpecGui == InitGui /\ [][start_download \/ show_playlist_dialog \/ run_starting]_vars

\* the window over any number of sessions, one after the other: every
\* path of run(), with the backend's progress callbacks and without its
\* log lines
SpecWindow ==
    InitGui /\ [][\/ start_download_again \/ show_playlist_dialog \/ abort_download
                  \/ run_abort_before_start \/ run_starting
                  \/ progress_hook \/ backend_return \/ backend_raise
                  \/ run_abort_after_return \/ run_not_aborted \/ run_reduce
                  \/ run_except_keyboard_interrupt \/ run_except_aborted
                  \/ run_except_not_aborted \/ run_except_emit
                  \/ download_finished]_vars

\* the quality labels a thread can be constructed with: every localized
\* phrase, every standard token, and labels no table knows
QualityLabels ==
    DOMAIN get_quality_reverse_map
        \cup {"1080p", "720p", "480p", "360p", "High", "Medium", "Low"}
        \cup {"4K", "best", ""}

\* a thread constructed with any format and any quality label
InitFormat ==
    /\ request \in [format_type : Formats, quality : QualityLabels, is_playlist : BOOLEAN]
    /\ pc = "idle"
    /\ abort_requested = FALSE
    /\ successful_videos = <<>>
    /\ skipped_videos = <<>>
    /\ failed_videos = <<>>
    /\ warnings = <<>>
    /\ console = <<>>
    /\ ydl_opts = NoOpts
    /\ events = <<>>
    /\ ui = UiDownloading
    /\ nlog = 0
    /\ nticks = 0
    /\ caught = ""
    /\ abort_pc = "none"
    /\ path = "none"
    /\ fed = {}
    /\ video_url = UrlWatch
    /\ prompted = "none"
    /\ ticks = <<>>

\* such a thread from its start to the backend options
SpecFormat == InitFormat /\ [][start \/ run_starting]_vars

\* a step of the worker thread: run() and the backend it calls, with the
\* backend's progress callbacks and without its log lines
worker_step ==
    \/ start \/ run_abort_before_start \/ run_starting
    \/ progress_hook \/ backend_return \/ backend_raise
    \/ run_abort_after_return \/ run_not_aborted \/ run_reduce
    \/ run_except_keyboard_interrupt \/ run_except_aborted
    \/ run_except_not_aborted \/ run_except_emit

\* a session whose worker thread is scheduled fairly, whose backend call
\* comes to an end, and whose caller's event loop delivers queued signals;
\* the caller may request an abort at any time, or never
SpecLive ==
    /\ Init
    /\ [][request_abort \/ worker_step \/ download_finished]_vars
    /\ WF_vars(worker_step)
    /\ WF_vars(download_finished)

\* such a thread whose backend reports the files it writes
SpecTitle == InitFormat /\ [][start \/ run_starting \/ backend_destination]_vars

\* a session whose backend makes progress callbacks of every kind
SpecProgress ==
    Init /\ [][start \/ run_starting \/ progress_hook_wide \/ backend_return]_vars


\* ------------------------------------------------- the terminal outcome
\* download_complete has been emitted
HasOutcome == pc \in {"done", "finished"}

\* the arguments of the emitted download_complete signal
outcome_success == events[Len(events)].args[1]
outcome_message == events[Len(events)].args[2]
outcome_items == events[Len(events)].args[3]

\* the outcome as the caller can tell it: download_finished takes success
\* with an empty list as complete success, success with a non-empty list
\* as partial success, and everything else as failure; an abort is a
\* failure that carries the aborted message
outcome_status ==
    IF ~outcome_success /\ outcome_message = download_aborted_msg THEN "ABORTED"
    ELSE IF outcome_success /\ outcome_items = <<>> THEN "SUCCESS"
    ELSE IF outcome_success THEN "PARTIAL_SUCCESS"
    ELSE "FAILURE"

\* the worker is in run() and has not emitted download_complete
RunningPcs == {"run", "download", "returned", "reduce",
               "except_keyboard_interrupt", "except_exception", "except_emit"}

\* places of run() from which the worker still reads abort_requested
\* before it emits download_complete
PolledPcs == {"run", "download", "returned", "except_exception"}

\* the ids of a list of records
Ids(videos) == {videos[k].id : k \in 1..Len(videos)}

\* no identifier occurs twice in the list
UniqueIds(videos) ==
    \A i, j \in 1..Len(videos) : videos[i].id = videos[j].id => i = j

\* ------------------------------------------------------------------ C1
\* C1 as stated: if request_abort() is called while the session is running
\* (run() has begun, download_complete not yet emitted), the terminal
\* outcome never has success = True and the session ends ABORTED.
C1_AbortWhileRunningNeverSucceeds ==
    (HasOutcome /\ abort_pc \in RunningPcs) =>
        (~outcome_success /\ outcome_status = "ABORTED")

\* C1 amended: if request_abort() is called while the session is running
\* and before the worker's last read of the abort flag (the check at the
\* head of run(), a progress callback, the check after the backend
\* returned, the check in the Exception handler), the terminal outcome is
\* ABORTED and never has success = True.
C1_AbortBeforeLastPollEndsAborted ==
    (HasOutcome /\ abort_pc \in PolledPcs) =>
        (~outcome_success /\ outcome_status = "ABORTED")

\* an abort requested while the backend runs has ended the session, through
\* the cancellation raised from the progress callback
C1_Witness ==
    /\ pc = "done"
    /\ abort_pc = "download"
    /\ path = "keyboard_interrupt"
    /\ outcome_status = "ABORTED"

\* ------------------------------------------------------------------ C2
\* C2 as stated: on a non-aborted backend return with at least one failed
\* item and at least one succeeded or skipped item, the outcome is
\* PARTIAL_SUCCESS (success with failures) and its item list is exactly
\* the failed records.
C2_MixedIsPartialSuccess ==
    (HasOutcome /\ path = "reduce" /\ Len(failed_videos) >= 1
       /\ (Len(successful_videos) >= 1 \/ Len(skipped_videos) >= 1)) =>
        (outcome_status = "PARTIAL_SUCCESS" /\ outcome_items = failed_videos)

\* C2 amended: on a non-aborted backend return with at least one failed
\* item and at least one succeeded or skipped item, the item list is
\* exactly the failed records and the message is the mixed-results message
\* (collection) or the download-failed text (single item); the outcome is
\* PARTIAL_SUCCESS (success = True) exactly when at least one item
\* succeeded, and is delivered with success = False when none succeeded.
C2_MixedSuccessIffDownloaded ==
    (HasOutcome /\ path = "reduce" /\ Len(failed_videos) >= 1
       /\ (Len(successful_videos) >= 1 \/ Len(skipped_videos) >= 1)) =>
        /\ outcome_items = failed_videos
        /\ outcome_success = (Len(successful_videos) >= 1)
        /\ (Len(successful_videos) >= 1 => outcome_status = "PARTIAL_SUCCESS")
        /\ outcome_message # download_all_failed_msg
        /\ outcome_message =
             IF request.is_playlist
             THEN download_mixed_results_msg(Len(successful_videos),
                                             Len(skipped_videos), Len(failed_videos))
             ELSE download_failed_msg

\* a reduction with failed, succeeded and skipped items all present
C2_Witness ==
    /\ pc = "done" /\ path = "reduce"
    /\ Len(failed_videos) >= 1
    /\ Len(successful_videos) >= 1
    /\ Len(skipped_videos) >= 1
    /\ outcome_status = "PARTIAL_SUCCESS"

\* ------------------------------------------------------------------ C3
\* C3: whenever a session that has started running ends ABORTED, the
\* outcome carries the aborted message and its item list equals the failed
\* records the tracker has accumulated, on every abort path.
C3_AbortedCarriesTrackedFailures ==
    (HasOutcome /\ path \in {"after_return", "keyboard_interrupt", "except_aborted"}) =>
        /\ outcome_message = download_aborted_msg
        /\ outcome_items = failed_videos

\* ------------------------------------------------------------------ C4
\* C4 as stated: request_abort() before start() is a no-op; the session
\* started afterwards still invokes the backend (it does not end at the
\* check at the head of run()).
C4_AbortBeforeStartIsNoOp ==
    (HasOutcome /\ abort_pc = "idle") =>
        (path # "before_start" /\ ydl_opts # NoOpts)

\* C4 amended: request_abort() before start() latches the abort flag; the
\* session started afterwards emits only download_complete(False, aborted
\* message, []), emits no status or progress event, and never invokes the
\* backend.
C4_AbortBeforeStartEndsAborted ==
    (HasOutcome /\ abort_pc = "idle") =>
        /\ events = <<download_complete(FALSE, download_aborted_msg, <<>>)>>
        /\ path = "before_start"
        /\ ydl_opts = NoOpts
        /\ nlog = 0 /\ nticks = 0

\* a session whose abort was requested before start() has ended
C4_Witness ==
    /\ pc = "done"
    /\ abort_pc = "idle"
    /\ outcome_status = "ABORTED"

\* ------------------------------------------------------------------ C5
\* C5: after any sequence of info and error lines, no item identifier
\* occurs more than once within the succeeded list, within the skipped
\* list, or within the failed list.
C5_NoIdTwiceInAList ==
    /\ UniqueIds(successful_videos)
    /\ UniqueIds(skipped_videos)
    /\ UniqueIds(failed_videos)

\* ------------------------------------------------------------------ C6
\* C6: a destination line of item A and an error line of another item C,
\* fed in either order to a fresh tracker, give exactly one SUCCEEDED
\* record with A's identifier and exactly one FAILED record with C's
\* identifier, the raw line as error and the URL rebuilt from C's
\* identifier; destination lines of two distinct items give two SUCCEEDED
\* records, one per item.
C6_RecordsAttributedToTheirItems ==
    /\ (fed = {<<"info", DestA>>, <<"error", ErrC>>} /\ nlog = 2) =>
          /\ Len(successful_videos) = 1
          /\ successful_videos[1].id = IdA
          /\ Len(failed_videos) = 1
          /\ failed_videos[1].id = IdC
          /\ failed_videos[1].error = ErrC
          /\ failed_videos[1].url = WatchUrlPrefix \o IdC
    /\ (fed = {<<"info", DestA>>, <<"info", DestB>>} /\ nlog = 2) =>
          /\ Len(successful_videos) = 2
          /\ Ids(successful_videos) = {IdA, IdB}

\* ------------------------------------------------------------------ C7
\* C7, for the sessions in which no abort is requested: no error is
\* silently dropped: for every error line the backend reported, the
\* terminal outcome's item list has a FAILED record for it, or, when the
\* line has no identifier, the outcome is not the plain complete SUCCESS.
C7_NoErrorSilentlyDropped ==
    (HasOutcome /\ abort_pc = "none") =>
        \A msg \in ErrorLines :
            <<"error", msg>> \in fed =>
                IF extract_video_id_from_msg(msg) # None
                THEN \E k \in 1..Len(outcome_items) : outcome_items[k].error = msg
                ELSE ~(outcome_status = "SUCCESS"
                       /\ outcome_message = download_complete_msg)

\* ------------------------------------------------------------------ C8
\* C8: on a non-aborted backend return with zero failed records, the
\* terminal outcome is SUCCESS with an empty item list, whatever the
\* succeeded and skipped counts.
C8_NoFailuresIsSuccess ==
    (HasOutcome /\ path = "reduce" /\ Len(failed_videos) = 0) =>
        /\ outcome_status = "SUCCESS"
        /\ outcome_success
        /\ outcome_items = <<>>

\* a reduction with no failure, a downloaded and an already-existing item
C8_Witness ==
    /\ pc = "done" /\ path = "reduce"
    /\ Len(failed_videos) = 0
    /\ Len(successful_videos) >= 1
    /\ Len(skipped_videos) >= 1
    /\ outcome_status = "SUCCESS"

\* ------------------------------------------------------------------ C9
\* C9: on a non-aborted backend return with at least one failed record,
\* zero succeeded and zero skipped, the terminal outcome is FAILURE with
\* the all-failed message and all tracked failed records as item list.
C9_AllFailedIsFailure ==
    (HasOutcome /\ path = "reduce" /\ Len(failed_videos) >= 1
       /\ Len(successful_videos) = 0 /\ Len(skipped_videos) = 0) =>
        /\ outcome_status = "FAILURE"
        /\ outcome_message = download_all_failed_msg
        /\ outcome_items = failed_videos

\* a reduction of four failures and nothing else: four items
C9_Witness ==
    /\ pc = "done" /\ path = "reduce"
    /\ Len(failed_videos) = 4
    /\ Len(successful_videos) = 0 /\ Len(skipped_videos) = 0
    /\ Len(outcome_items) = 4
    /\ outcome_status = "FAILURE"

\* ----------------------------------------------------------------- C10
\* the backend reported exactly the destination lines of A and B and the
\* Private-video error line of C, in some order, for the MP4 / Best
\* collection request, and returned without an abort
C10_Scenario ==
    /\ request = [format_type |-> "MP4", quality |-> "Best", is_playlist |-> TRUE]
    /\ fed = {<<"info", DestA>>, <<"info", DestB>>, <<"error", ErrC>>}
    /\ nlog = 3
    /\ path = "reduce"

\* C10: in that scenario the terminal outcome is PARTIAL_SUCCESS and its
\* item list is exactly one record, the FAILED record of CCCCCCCCCCC.
C10_EndToEndPartialSuccess ==
    (HasOutcome /\ C10_Scenario) =>
        /\ outcome_status = "PARTIAL_SUCCESS"
        /\ Len(outcome_items) = 1
        /\ outcome_items[1].id = IdC
        /\ outcome_items = failed_videos

\* the scenario has run to its terminal outcome
C10_Witness ==
    /\ pc = "done"
    /\ C10_Scenario
    /\ ydl_opts.noplaylist = FALSE
    /\ Len(outcome_items) = 1

\* ------------------------------------------------------------------ C11
\* C11: if the backend invocation raised an unexpected error and no abort
\* was requested before the outcome, the terminal outcome is FAILURE, its
\* message wraps the raw error text, and its item list is the failed
\* records the tracker held when the error was raised.
C11_BackendErrorIsFailure ==
    (HasOutcome /\ caught # "" /\ abort_pc \in {"none", "done", "finished"})
        => /\ path = "except"
           /\ outcome_status = "FAILURE"
           /\ outcome_message = Fmt("Failed to download the video: {}", <<caught>>)
           /\ outcome_items = failed_videos

\* a backend error after one failure was tracked, no abort
C11_Witness ==
    /\ HasOutcome
    /\ caught \in BackendErrors
    /\ abort_pc = "none"
    /\ path = "except"
    /\ failed_videos # <<>>
    /\ outcome_items = failed_videos

\* ------------------------------------------------------------------ C12
\* C12 as stated: once request_abort() has been called while the backend
\* runs, the very next backend callback of either kind, a progress tick or
\* a log line, raises the cancellation signal into the backend, and the
\* records of the tracker stay as they were.
C12_NextCallbackOfEitherKindCancels ==
    [][(abort_requested /\ pc = "download" /\ (nticks' # nticks \/ nlog' # nlog))
          => (pc' = "except_keyboard_interrupt" /\ UNCHANGED tracker_vars)]_vars

\* C12 amended: the next progress callback raises the cancellation signal
\* and publishes nothing, leaving every record of the tracker in place; a
\* log line never raises it: the tracker processes the line as usual and
\* the backend goes on.
C12_NextProgressCallbackCancels ==
    [][(abort_requested /\ pc = "download")
          => /\ (nticks' # nticks)
                   => /\ pc' = "except_keyboard_interrupt"
                      /\ UNCHANGED tracker_vars
                      /\ UNCHANGED events
             /\ (nlog' # nlog) => pc' = "download"]_vars

\* an abort requested while the backend ran, after one item completed and
\* with log lines still to come, cancelled by a progress callback
C12_Witness ==
    /\ pc = "except_keyboard_interrupt"
    /\ abort_pc = "download"
    /\ abort_requested
    /\ successful_videos # <<>>
    /\ nticks >= 1

\* ------------------------------------------------ format resolution
\* the standard quality tokens of the video and of the audio formats
VideoTokens == {"Best", "1080p", "720p", "480p", "360p", "Lowest"}
AudioTokens == {"High", "Medium", "Low"}
VideoFormats == {"MP4", "WEBM"}

\* the label stands for a quality token of the format
Recognised(format_type, quality) ==
    standard_quality(quality) \in
        (IF format_type \in VideoFormats THEN VideoTokens ELSE AudioTokens)

\* the tokens of a format string
Tokens(format) == {format[k] : k \in 1..Len(format)}

\* the phrases of the four translation tables for each standard token:
\* the keys quality_best, quality_lowest, audio_quality_high,
\* audio_quality_medium and audio_quality_low
quality_phrases ==
    [Best   |-> {"Best", "Beste", "Mejor", "Meilleure"},
     Lowest |-> {"Lowest", "Niedrigste", "Más baja", "Plus faible"},
     High   |-> {"High Quality", "Hohe Qualität", "Alta calidad", "Haute qualité"},
     Medium |-> {"Medium Quality", "Mittlere Qualität", "Calidad media", "Qualité moyenne"},
     Low    |-> {"Low Quality", "Niedrige Qualität", "Baja calidad", "Basse qualité"}]

\* ------------------------------------------------------------------ C13
\* C13 as stated: for every format and every quality label that is not a
\* recognised token of that format, the resolution is the one of Best
\* (video) or of High (audio): the same format string and the same
\* post-processors.
C13_UnknownQualityResolvesAsBestOrHigh ==
    (pc = "download" /\ ~Recognised(request.format_type, request.quality))
        => LET top == IF request.format_type \in VideoFormats THEN "Best" ELSE "High"
               best == get_format_options(request.format_type, top)
           IN  /\ ydl_opts.format = best[1]
               /\ ydl_opts.postprocessors = best[2]

\* C13 amended: an unrecognised label never fails; a video format resolves
\* it as Best; MP3 resolves it as the Medium tier (bitrate 192); WAV
\* resolves it to the unfiltered selector bestaudio/best, which is the
\* selector of no tier, with the post-processor every WAV tier has.
C13_UnknownQualityResolvesToDefault ==
    (pc = "download" /\ ~Recognised(request.format_type, request.quality))
        => /\ ydl_opts.format # <<>>
           /\ request.format_type \in VideoFormats
                 => /\ ydl_opts.format = get_format_options(request.format_type, "Best")[1]
                    /\ ydl_opts.postprocessors = <<>>
           /\ request.format_type = "MP3"
                 => /\ ydl_opts.format = get_format_options("MP3", "Medium")[1]
                    /\ ydl_opts.postprocessors = get_format_options("MP3", "Medium")[2]
                    /\ ydl_opts.postprocessors[1].preferredquality = "192"
           /\ request.format_type = "WAV"
                 => /\ ydl_opts.format = <<"bestaudio", "/", "best">>
                    /\ \A q \in AudioTokens :
                          ydl_opts.format # get_format_options("WAV", q)[1]
                    /\ ydl_opts.postprocessors = get_format_options("WAV", "High")[2]

\* an MP3 session constructed with a label no table knows
C13_Witness ==
    /\ pc = "download"
    /\ request.format_type = "MP3"
    /\ request.quality = "4K"
    /\ ydl_opts.postprocessors[1].preferredquality = "192"

\* ------------------------------------------------------------------ C14
\* C14: for every supported (format, quality) pair the format string is
\* not empty; a video format has no post-processor, a format string capped
\* at the height of 1080p/720p/480p/360p, uncapped for Best, and the worst
\* stream for Lowest; MP3 has one audio-extraction post-processor with
\* bitrate 320/192/128 for High/Medium/Low; WAV has a format string
\* filtered by a minimum source bitrate of 320/192/128 that falls back to
\* the best available stream, and one audio-extraction post-processor
\* without a bitrate.
C14_SupportedPairsMatchTheTable ==
    (pc = "download" /\ Recognised(request.format_type, request.quality))
        => LET q  == standard_quality(request.quality)
               f  == ydl_opts.format
               pp == ydl_opts.postprocessors
               n  == CASE q = "High" -> "320" [] q = "Medium" -> "192" [] OTHER -> "128"
               floor == CASE q = "High" -> "[abr>=320]"
                          [] q = "Medium" -> "[abr>=192]"
                          [] OTHER -> "[abr>=128]"
               HeightCaps == {"[height<=1080]", "[height<=720]", "[height<=480]",
                              "[height<=360]"}
               cap == CASE q = "1080p" -> {"[height<=1080]"}
                        [] q = "720p" -> {"[height<=720]"}
                        [] q = "480p" -> {"[height<=480]"}
                        [] q = "360p" -> {"[height<=360]"}
                        [] OTHER -> {}
           IN  /\ f # <<>>
               /\ request.format_type \in VideoFormats
                     => /\ pp = <<>>
                        /\ Tokens(f) \cap HeightCaps = cap
                        /\ (q = "Lowest") <=> (f[1] = "worst")
                        /\ (q # "Lowest") => {"bestvideo", "+", "bestaudio", "/", "best"} \subseteq Tokens(f)
                        /\ (IF request.format_type = "MP4" THEN "[ext=mp4]" ELSE "[ext=webm]")
                               \in Tokens(f)
               /\ request.format_type = "MP3"
                     => /\ f = <<"bestaudio", "/", "best">>
                        /\ Len(pp) = 1
                        /\ pp[1].key = "FFmpegExtractAudio"
                        /\ pp[1].preferredcodec = "mp3"
                        /\ pp[1].preferredquality = n
               /\ request.format_type = "WAV"
                     => /\ f = <<"bestaudio", floor, "/", "bestaudio", "/", "best">>
                        /\ Len(pp) = 1
                        /\ pp[1].key = "FFmpegExtractAudio"
                        /\ pp[1].preferredcodec = "wav"
                        /\ "preferredquality" \notin DOMAIN pp[1]

\* an MP3 session constructed with the German phrase for High
C14_Witness ==
    /\ pc = "download"
    /\ request.format_type = "MP3"
    /\ request.quality = "Hohe Qualität"
    /\ ydl_opts.postprocessors[1].preferredquality = "320"

\* ------------------------------------------------------------------ C15
\* C15: canonicalisation (standard_quality) is idempotent; every standard
\* token maps to itself; a label no table knows is returned unchanged; the
\* four localized phrases of each of Best, Lowest, High, Medium and Low map
\* to that one token; so a label and its standard token resolve alike.
C15_CanonicalizeIdempotent ==
    LET x == request.quality
    IN  /\ standard_quality(standard_quality(x)) = standard_quality(x)
        /\ x \in (VideoTokens \cup AudioTokens) => standard_quality(x) = x
        /\ (\A token \in DOMAIN quality_phrases : x \notin quality_phrases[token])
               => standard_quality(x) = x
        /\ \A token \in DOMAIN quality_phrases :
               /\ Cardinality(quality_phrases[token]) = 4
               /\ x \in quality_phrases[token] => standard_quality(x) = token
        /\ pc = "download"
               => ydl_opts.format
                      = get_format_options(request.format_type, standard_quality(x))[1]

\* a session constructed with the French phrase for Best
C15_Witness ==
    /\ pc = "download"
    /\ request.quality = "Meilleure"
    /\ request.format_type = "MP4"
    /\ standard_quality(request.quality) = "Best"
    /\ ydl_opts.format = mp4_quality_formats["Best"]

\* ------------------------------------------------ the playlist question
\* start_download took the URL for a playlist: the dialog is open or has
\* been answered
Classified == pc = "playlist_dialog" \/ prompted # "none"

\* the thread has been started
SessionStarted == pc \in {"run", "download"}

\* the url in lower case
lower_str(url) == [k \in 1..Len(url) |-> lower(url[k])]

\* the url has a query parameter of that name
HasQueryParam(name, url) ==
    \/ Contains(<<"?">> \o name \o <<"=">>, lower_str(url))
    \/ Contains(<<"&">> \o name \o <<"=">>, lower_str(url))

\* the url has that path segment: the segment ends where the url ends or
\* at the next "/", "?" or "#"
HasPathSegment(segment, url) ==
    \E i \in 1..Len(url) :
        /\ OccursAt(segment, lower_str(url), i)
        /\ \/ i + Len(segment) > Len(url)
           \/ url[i + Len(segment)] \in {"/", "?", "#"}

\* ------------------------------------------------------------------ C16
\* C16 as stated: a URL that start_download accepted is taken for a collection exactly when it has a
\* list= query parameter, a /playlist path segment, or an index= query
\* parameter.
C16_ClassifiedIffMarker ==
    video_url # <<>>
        => (Classified <=> \/ HasQueryParam(<<"l","i","s","t">>, video_url)
                           \/ HasPathSegment(<<"/","p","l","a","y","l","i","s","t">>, video_url)
                           \/ HasQueryParam(<<"i","n","d","e","x">>, video_url))

\* C16 amended: a URL is taken for a collection exactly when, letter case
\* aside, it has a list= query parameter, the text "/playlist?" (the
\* /playlist path segment followed by a query string), or an index= query
\* parameter; so it is for a watch URL with &list= and for a
\* /playlist?list= URL, and it is not for a plain watch URL nor for a
\* /playlist path without a query string.
C16_ClassifiedIffMarkerWithQuery ==
    video_url # <<>>
        => /\ Classified <=> \/ HasQueryParam(<<"l","i","s","t">>, video_url)
                             \/ Contains(<<"/","p","l","a","y","l","i","s","t","?">>, lower_str(video_url))
                             \/ HasQueryParam(<<"i","n","d","e","x">>, video_url)
           /\ video_url \in {UrlWatchList, UrlPlaylist} => Classified
           /\ video_url \in {UrlWatch, UrlPlaylistPath} => ~Classified

\* a /playlist URL without a query string went on without the dialog
C16_Witness ==
    /\ video_url = UrlPlaylistPath
    /\ SessionStarted
    /\ prompted = "none"
    /\ ~request.is_playlist

\* ------------------------------------------------------------------ C17
\* C17: a session expands a collection (noplaylist false) only if the URL
\* was taken for a collection and the user chose the entire playlist in
\* the dialog; every URL taken for a collection opens the dialog while no
\* thread exists yet; a URL not taken for a collection is fetched as a
\* single item without a dialog.
C17_CollectionOnlyByChoice ==
    /\ (SessionStarted /\ request.is_playlist)
          => (is_playlist_url(video_url) /\ prompted = "playlist_button")
    /\ (pc = "download" /\ ydl_opts.noplaylist = FALSE)
          => (is_playlist_url(video_url) /\ prompted = "playlist_button")
    /\ (SessionStarted /\ is_playlist_url(video_url)) => prompted \in DialogButtons
    /\ (SessionStarted /\ ~is_playlist_url(video_url))
          => /\ prompted = "none"
             /\ ~request.is_playlist
             /\ pc = "download" => ydl_opts.noplaylist = TRUE
    /\ (SessionStarted /\ prompted \in {"single_button", "closed"})
          => /\ ~request.is_playlist
             /\ pc = "download" => ydl_opts.noplaylist = TRUE
    /\ pc = "playlist_dialog"
          => /\ is_playlist_url(video_url)
             /\ events = <<>>
             /\ ydl_opts = NoOpts
             /\ ui.download_enabled

\* the user chose the entire playlist for a watch URL with a list parameter
C17_Witness ==
    /\ pc = "download"
    /\ video_url = UrlWatchList
    /\ prompted = "playlist_button"
    /\ request.is_playlist
    /\ ydl_opts.noplaylist = FALSE

\* ------------------------------------------------- progress callbacks
\* d.get('downloaded_bytes', 0)
Downloaded(d) == IF d.downloaded_bytes = Absent THEN 0 ELSE d.downloaded_bytes

\* the total progress_hook divides by: the exact total when present and
\* not zero, else the estimated one when present and not zero, else 0
UsedTotal(d) ==
    IF d.total_bytes # Absent /\ d.total_bytes # 0 THEN d.total_bytes
    ELSE IF d.total_bytes_estimate # Absent /\ d.total_bytes_estimate # 0
         THEN d.total_bytes_estimate
         ELSE 0

\* what the handled callbacks published, in their order
RECURSIVE Published(_)
Published(ts) == IF ts = <<>> THEN <<>> ELSE Head(ts).published \o Published(Tail(ts))

\* the progress_update events among the emitted signals
ProgressEvents == SelectSeq(events, LAMBDA ev : ev.sig = "progress_update")

\* ------------------------------------------------------------------ C18
\* C18: a 'downloading' callback publishes floor(100 * downloaded / total),
\* with the exact total when it is present and not zero and the estimated
\* total otherwise; it publishes nothing when neither total is usable; a
\* 'finished' callback publishes exactly 100.
C18_PercentIsFloor ==
    \A k \in 1..Len(ticks) :
        LET d == ticks[k].d
        IN  /\ d.status = "downloading"
                 => ticks[k].published =
                        IF UsedTotal(d) = 0
                        THEN <<>>
                        ELSE <<progress_update((100 * Downloaded(d)) \div UsedTotal(d))>>
            /\ d.status = "finished" => ticks[k].published = <<progress_update(100)>>

\* ------------------------------------------------------------------ C19
\* C19 as stated: within one session the progress percentages delivered to
\* the caller never decrease.
C19_ProgressNonDecreasing ==
    \A i, j \in 1..Len(ProgressEvents) :
        i < j => ProgressEvents[i].args[1] <= ProgressEvents[j].args[1]

\* C19 amended: the events are published in the order of the callbacks:
\* after the starting status and 0%, each handled callback appends what it
\* alone gives, at most one event; between two consecutive 'downloading'
\* callbacks with the same totals and no fewer downloaded bytes the
\* percentage does not decrease.
C19_ProgressFollowsCallbacks ==
    /\ pc \in {"download", "returned"}
          => events = starting_signals \o Published(ticks)
    /\ \A k \in 1..Len(ticks) : Len(ticks[k].published) <= 1
    /\ \A k \in 1..(Len(ticks) - 1) :
          LET a == ticks[k].d
              b == ticks[k + 1].d
          IN  (/\ a.status = "downloading" /\ b.status = "downloading"
               /\ UsedTotal(a) # 0
               /\ a.total_bytes = b.total_bytes
               /\ a.total_bytes_estimate = b.total_bytes_estimate
               /\ Downloaded(a) <= Downloaded(b))
                  => ticks[k].published[1].args[1] <= ticks[k + 1].published[1].args[1]

\* an item finished at 100% and the next item of the collection began
C19_Witness ==
    /\ Len(ticks) = 2
    /\ ticks[1].d.status = "finished"
    /\ ticks[2].d.status = "downloading"
    /\ ProgressEvents = <<progress_update(0), progress_update(100), progress_update(28)>>

\* ------------------------------------------------------------------ C20
\* C20: in every session that is not ended by the abort check at the head
\* of run(), the first two events are the starting status and 0% progress,
\* emitted before the backend is invoked and so before every event a
\* backend callback causes and before the terminal outcome; before them
\* the backend has made no callback.
C20_StartingEventsFirst ==
    /\ (pc \notin {"idle", "run"} /\ path # "before_start")
          => /\ Len(events) >= 2
             /\ events[1] = status_update(Fmt("Downloading... Please wait.", <<>>), "blue")
             /\ events[2] = progress_update(0)
             /\ \A k \in 3..Len(events) :
                   events[k].sig \in {"progress_update", "download_complete"}
             /\ HasOutcome => Len(events) >= 3
    /\ pc \in {"idle", "run"}
          => (events = <<>> /\ nticks = 0 /\ nlog = 0 /\ ydl_opts = NoOpts)

\* the caller acted while the backend ran: after the two starting events
\* and a progress event, request_abort() was called and the session ended
C20_Witness ==
    /\ HasOutcome
    /\ abort_pc = "download"
    /\ Len(events) >= 4
    /\ events[2] = progress_update(0)
    /\ events[3].sig = "progress_update"
    /\ events[Len(events)].sig = "download_complete"

\* ------------------------------------------------------------------ C21
\* C21: a per-item failure never aborts the session. A step in which the
\* tracker handles an error-level line (it prints the line with the ERROR
\* prefix) leaves the worker inside the backend call, raises nothing, emits
\* no event and requests no abort; in a session that was fed an error line
\* every other line fed is recorded and every progress callback of a
\* session that is not aborted is handled; before the
\* terminal outcome only status and progress events exist, and the
\* terminal outcome of a session that was not aborted lists the tracked
\* failures.
C21_ItemFailureNeverEndsTheSession ==
    /\ [][(/\ Len(console') = Len(console) + 1
            /\ SubSeq(console'[Len(console')], 1, Len(ErrorPrefix)) = ErrorPrefix)
           => (/\ pc = "download" /\ pc' = "download"
               /\ events' = events
               /\ caught' = caught
               /\ path' = path
               /\ abort_requested' = abort_requested)]_vars
    /\ []((/\ pc = "download"
            /\ \E k \in 1..Len(console) :
                  SubSeq(console[k], 1, Len(ErrorPrefix)) = ErrorPrefix)
           => \A k \in 1..Len(events) : events[k].sig # "download_complete")
    /\ []((\E msg \in ErrorLines : <<"error", msg>> \in fed)
           => (/\ (\E msg \in DestLines : <<"info", msg>> \in fed) => successful_videos # <<>>
               /\ (\E msg \in SkipLines : <<"info", msg>> \in fed) => skipped_videos # <<>>
               /\ (\E msg \in WarningLines : <<"warning", msg>> \in fed) => warnings # <<>>
               /\ abort_pc = "none" => Len(ticks) = nticks))
    /\ []((HasOutcome /\ abort_pc = "none" /\ failed_videos # <<>>)
           => (/\ outcome_items = failed_videos
               /\ \A k \in 1..(Len(events) - 1) : events[k].sig # "download_complete"))

\* an error line with an identifier, then a destination line that was
\* recorded and a progress callback that was published, and a terminal
\* outcome that lists the failure
C21_Witness ==
    /\ HasOutcome /\ path = "reduce"
    /\ Len(failed_videos) = 1 /\ failed_videos[1].id = IdC
    /\ Len(successful_videos) = 1
    /\ Len(console) = 1
    /\ Len(ticks) = 1 /\ Len(events) = 4
    /\ outcome_items = failed_videos

\* ------------------------------------------------------------------ C22
\* C22: the frame of an error-level line. When the tracker handles an
\* error-level line (it prints the line with the ERROR prefix) from which
\* no identifier can be extracted, the succeeded, skipped and failed lists
\* are unchanged; when an identifier can be extracted, exactly one record
\* is appended to the failed list, carrying that identifier, the raw
\* message and the item URL rebuilt from the identifier, and the succeeded
\* and skipped lists are unchanged.
C22_ErrorLineFrame ==
    [][\A msg \in ErrorLines :
          (console' = Append(console, ErrorPrefix \o msg))
          => (/\ successful_videos' = successful_videos
              /\ skipped_videos' = skipped_videos
              /\ warnings' = warnings
              /\ LET video_id == extract_video_id_from_msg(msg)
                 IN  IF video_id = None
                     THEN failed_videos' = failed_videos
                     ELSE /\ Len(failed_videos') = Len(failed_videos) + 1
                          /\ SubSeq(failed_videos', 1, Len(failed_videos)) = failed_videos
                          /\ failed_videos'[Len(failed_videos')].id = video_id
                          /\ failed_videos'[Len(failed_videos')].error = msg
                          /\ failed_videos'[Len(failed_videos')].url
                                = WatchUrlPrefix \o video_id)]_vars

\* both kinds of error line were handled after a destination line and a
\* skip line: one failed record, the other lists as they were
C22_Witness ==
    /\ <<"error", ErrNoId>> \in fed /\ <<"error", ErrC>> \in fed
    /\ Len(console) = 2
    /\ Len(failed_videos) = 1 /\ failed_videos[1].id = IdC
    /\ Len(successful_videos) = 1 /\ Len(skipped_videos) = 1

\* ------------------------------------------------------------------ C23
\* C23 as stated: title extraction inverts the output naming. For every
\* destination line the tracker recorded whose file name is the output
\* template filled in with a title (title, '-' and the quality label for
\* the video formats, '.' and the extension; title and extension for the
\* audio formats), for every quality label of the format in every
\* language, the title of the record is that title; for a line without a
\* destination path the title is "Unknown Title".
C23_TitleExtractionInvertsNaming ==
    /\ \A k \in 1..Len(successful_videos) :
          \A title \in Titles, ext \in {<<"m","p","4">>, <<"w","e","b","m">>} :
             (/\ Recognised(request.format_type, request.quality)
              /\ successful_videos[k].message
                    = destination_line(ydl_opts.outtmpl, title, ext))
             => successful_videos[k].title = title
    /\ \A msg \in SkipLines \cup ErrorLines : extract_title_from_msg(msg) = UnknownTitle

\* ------------------------------------------------------------------ C24
\* C24: an empty URL is rejected on the spot. The step that shows the
\* URL error happens only while no session is active, changes nothing but
\* the dialog shown (download button, abort button and progress bar stay
\* as they were), creates no thread and starts no worker; and no session
\* ever runs, or waits in the playlist dialog, with a URL that is empty or
\* is not trimmed.
C24_EmptyUrlRejected ==
    /\ [][(/\ ui'.dialog_message = Fmt(texts["url_error"], <<>>)
            /\ ui.dialog_message # Fmt(texts["url_error"], <<>>))
           => (/\ pc \in {"no_thread", "finished"} /\ pc' = pc
               /\ ui'.dialog = "critical"
               /\ ui' = [ui EXCEPT !.dialog = "critical",
                                   !.dialog_message = Fmt(texts["url_error"], <<>>),
                                   !.dialog_videos = <<>>]
               /\ UNCHANGED <<request, video_url, events, abort_requested, ydl_opts,
                              tracker_vars, prompted>>)]_vars
    /\ [](pc # "no_thread" => (video_url # <<>> /\ strip(video_url) = video_url))

\* the URL error is on screen in a window that has started no session,
\* with its widgets as the constructor left them
C24_Witness ==
    /\ pc = "no_thread"
    /\ ui = [UiIdle EXCEPT !.dialog = "critical",
                           !.dialog_message = Fmt(texts["url_error"], <<>>)]
    /\ video_url = <<>> /\ events = <<>>

\* ------------------------------------------------------------------ C25
\* C25 as stated: when the backend returned, no abort was noticed, nothing
\* failed and at least one item was skipped, the message of the terminal
\* outcome reports the number of downloaded and of already-existing items,
\* for collection and single-item requests alike, and that message is the
\* one the window presents (status label and dialog) once the outcome is
\* delivered.
C25_SkipSummaryReportsCountsAndIsShown ==
    (HasOutcome /\ path = "reduce" /\ failed_videos = <<>> /\ skipped_videos # <<>>)
    => (/\ outcome_message
              = download_with_skips_msg(Len(successful_videos), Len(skipped_videos))
        /\ pc = "finished" => (/\ ui.status_text = outcome_message
                               /\ ui.dialog_message = outcome_message))

\* ------------------------------------------------------------------ C26
\* C26: every session whose worker starts emits exactly one terminal
\* outcome, on every path. Before the emit no download_complete exists;
\* from the emit on, download_complete is the last event, it is the only
\* one, and it came from one of the six places of run() that emit it;
\* nothing is emitted after it; a worker that has started always reaches
\* the emit, and the emitted outcome is always delivered to the window.
C26_ExactlyOneTerminalOutcomeLast ==
    /\ [](pc \in {"idle"} \cup RunningPcs
           => \A k \in 1..Len(events) : events[k].sig # "download_complete")
    /\ [](HasOutcome
           => (/\ Len(events) >= 1
               /\ events[Len(events)].sig = "download_complete"
               /\ \A k \in 1..(Len(events) - 1) :
                     events[k].sig \in {"status_update", "progress_update"}
               /\ path \in {"before_start", "after_return", "reduce", "keyboard_interrupt",
                             "except_aborted", "except"}))
    /\ [][HasOutcome => events' = events]_vars
    /\ (pc = "run") ~> HasOutcome
    /\ (pc = "done") ~> (pc = "finished")

\* a cancelled session: starting status, 0%, one published percentage,
\* then the terminal outcome emitted by the KeyboardInterrupt handler and
\* delivered to the window
C26_Witness ==
    /\ pc = "finished" /\ path = "keyboard_interrupt"
    /\ Len(events) = 4
    /\ events[3].sig = "progress_update"
    /\ events[4].sig = "download_complete"

\* ------------------------------------------------------------------ C27
\* C27 as stated: every progress value the worker publishes lies in
\* 0..100, for every backend progress callback, also one whose
\* downloaded_bytes exceeds the exact or the estimated total.
C27_ProgressWithinRange ==
    \A k \in 1..Len(events) :
        events[k].sig = "progress_update"
            => (events[k].args[1] >= 0 /\ events[k].args[1] <= 100)

\* ------------------------------------------------------------------ C28
\* C28: at most one session is active in the window. While a session is
\* active (its thread was started and its terminal outcome has not reached
\* download_finished) the download button is disabled; a thread is started,
\* and the playlist dialog is opened, only when no session is active; and
\* once the outcome is delivered the widgets are idle again (download
\* button enabled with its label, abort button hidden, enabled and
\* labelled 'Abort', progress bar hidden at 0), whatever the outcome and
\* whether or not the abort button had been used.
C28_OneSessionAtATime ==
    /\ [](pc \in RunningPcs \cup {"done"}
           => (~ui.download_enabled /\ ui.abort_visible /\ ui.progress_visible))
    /\ [][(pc' = "run" /\ pc # "run")
           => pc \in {"no_thread", "finished", "playlist_dialog"}]_vars
    /\ [][(pc' = "playlist_dialog" /\ pc # "playlist_dialog")
           => pc \in {"no_thread", "finished"}]_vars
    /\ [](pc = "finished"
           => (/\ ui.download_enabled
               /\ ui.download_text = texts["download_button"]
               /\ ~ui.abort_visible /\ ui.abort_enabled /\ ui.abort_text = "Abort"
               /\ ~ui.progress_visible /\ ui.progress_value = 0))

\* the outcome of a session whose abort button was clicked (which disabled
\* it and relabelled it) has been delivered, and the window is idle
C28_Witness ==
    /\ pc = "finished"
    /\ abort_pc = "download"
    /\ path = "keyboard_interrupt"
    /\ ui.download_enabled /\ ~ui.abort_visible /\ ui.abort_enabled
    /\ ui.abort_text = "Abort"
    /\ ~ui.progress_visible /\ ui.progress_value = 0

\* ------------------------------------------------------------------ C29
\* C29: an abort request takes precedence over a backend error. In every
\* session whose backend raised an Exception after an abort was requested
\* (while the backend was running, or between the raise and the handler's
\* check), the terminal outcome is ABORTED: not successful, with the
\* aborted message and not the failure message, emitted by the handler's
\* abort branch with the failures tracked so far.
C29_AbortPrecedesBackendError ==
    (HasOutcome /\ caught # "" /\ abort_pc \in {"download", "except_exception"})
    => (/\ outcome_status = "ABORTED"
        /\ ~outcome_success
        /\ outcome_message = download_aborted_msg
        /\ outcome_message # download_exception_msg(caught)
        /\ path = "except_aborted"
        /\ outcome_items = failed_videos)

\* an abort was requested while the backend was running, the backend then
\* raised, and the session ended aborted with the failure it had tracked
C29_Witness ==
    /\ HasOutcome
    /\ caught # "" /\ abort_pc = "download"
    /\ outcome_status = "ABORTED"
    /\ failed_videos # <<>> /\ outcome_items = failed_videos

\* ------------------------------------------------------------------ C30
\* C30 as stated: each item has one status. After any sequence of log
\* lines no identifier is present in more than one of the succeeded,
\* skipped and failed lists, so the three counts of the reduction never
\* count an item twice.
C30_OneStatusPerItem ==
    /\ Ids(successful_videos) \cap Ids(skipped_videos) = {}
    /\ Ids(successful_videos) \cap Ids(failed_videos) = {}
    /\ Ids(skipped_videos) \cap Ids(failed_videos) = {}

====
